---- MODULE Spec2Model ----
(***************************************************************************)
(* A model of p7: the block-level reasoning environment                    *)
(* (src/p7/environment.py), the typed sampler (src/p7/sampler.py), the     *)
(* generation loops (src/p7/llm.py, src/proposition_7/inference.py), the   *)
(* grammar registry (src/proposition_7/grammars.py) and the API service's  *)
(* model cache, streams and whitespace filter (src/api/services).          *)
(*                                                                         *)
(* Text is a sequence of symbols.  The tags of the environment are single  *)
(* symbols; "NL" is a newline; every other symbol is a character.          *)
(***************************************************************************)
EXTENDS Integers, Sequences, FiniteSets, TLC

VARIABLES
    \* ReasoningEnvironment.generate
    pc, max_blocks, start_thinking, initial, block_idx, current_mode,
    accumulated, blocks, stopped_reason, calls, mode_switches,
    \* the Think step just made, when the last step was one: the stop token
    \* at which generate_unconstrained stopped (none when it ran to its
    \* budget) and the stop_tag that _generate_think returned
    think_stop_token, think_stop_tag,
    \* TypedSampler: the recognizer's buffer, what logit_fn returns, the
    \* arguments of the call and what the last operation returned (in
    \* iter_unconstrained, the index the last multinomial draw fell on)
    buffer, logits, pre_top_k, greedy_k, ret,
    \* The generation loops of ConstrainedModel and of inference: the entry
    \* point called, its arguments, its position, its locals, the tokens it
    \* yielded, the summary it returned or the exception it raised, and on the
    \* caller's side the pulls made, the tokens counted, the on_token calls
    \* seen and the text accumulated
    gen_pc, entry, gen_initial, max_tokens, stop_on_complete, step,
    tokens_generated, yielded, result, logit_calls, raised,
    generated_token_ids, pulls, received, callbacks, full_text,
    \* The model cache of the API service (_models) and the threads that call
    \* get_model_and_tokenizer: their position, the name asked for, the pair
    \* they loaded and what they returned; the loads made per name
    models, cache_pc, cache_name, cache_local, cache_ret, loads,
    \* A streaming generator of the API service: which one, its position,
    \* the registry of active generations, the events it yielded, its locals,
    \* the worker thread of the unconstrained stream with its queue, and the
    \* tokens the generation underneath handed over so far (next(gen) of the
    \* constrained stream, on_token of the unconstrained one)
    stream, stream_initial, stream_pc, active_generations, events, stream_step,
    stream_text, finish_reason, worker_pc, worker_steps, token_queue, done_event,
    result_holder, stream_produced,
    \* The grammar registry (GRAMMARS of proposition_7.grammars) with the calls
    \* made on it and what each returned
    grammars, registry_calls,
    \* mask_repeated_whitespace: the arguments of the call (the logits list as
    \* it is now, the current text) and what the call returned
    mask_logits, mask_text, masked,
    \* The two generation loops called on the same arguments: what each
    \* returned and the on_token calls each made
    compared

envVars == <<pc, max_blocks, start_thinking, initial, block_idx, current_mode,
             accumulated, blocks, stopped_reason, calls, mode_switches,
            think_stop_token, think_stop_tag>>

smpVars == <<buffer, logits, pre_top_k, greedy_k, ret>>

\* What a step of a generation loop leaves alone: the arguments of the call.
genArgs == <<entry, gen_initial, max_tokens, stop_on_complete>>

\* The generator's side and the caller's side of a generation.
genLocals == <<step, tokens_generated, yielded, result, logit_calls, raised,
               generated_token_ids>>

genCaller == <<pulls, received, callbacks, full_text>>

genVars == <<gen_pc, genArgs, genLocals, genCaller>>

cacheVars == <<models, cache_pc, cache_name, cache_local, cache_ret, loads>>

workerVars == <<worker_pc, worker_steps, token_queue, done_event,
                result_holder, stream_produced>>

streamVars == <<stream, stream_initial, stream_pc, active_generations, events,
                stream_step, stream_text, finish_reason, workerVars>>

libVars == <<grammars, registry_calls, mask_logits, mask_text, masked, compared>>

svcVars == <<cacheVars, streamVars, libVars>>

vars == <<envVars, smpVars, genVars, svcVars>>

(***************************************************************************)
(* Bounds of the model.                                                    *)
(***************************************************************************)
MaxBlocks == 3
MaxThinkLen == 2
MaxLogit == 2
MaxK == 2
MaxText == 3
MaxTokens == 2

(***************************************************************************)
(* Helpers on text.                                                        *)
(***************************************************************************)
Contains(s, x) == \E i \in 1..Len(s) : s[i] = x

\* str.find: the first position of x in s (1-based); s contains x.
Find(s, x) == CHOOSE i \in 1..Len(s) : s[i] = x /\ \A j \in 1..(i - 1) : s[j] # x

Count(s, x) == Cardinality({i \in 1..Len(s) : s[i] = x})

Last(s) == s[Len(s)]

\* s[:n] of Python for n >= 0.
Prefix(s, n) == SubSeq(s, 1, IF n < Len(s) THEN n ELSE Len(s))

\* s[n:] of Python for n >= 0 (n counts the symbols dropped).
Suffix(s, n) == SubSeq(s, n + 1, Len(s))

IsPrefixOf(p, s) == Len(p) <= Len(s) /\ SubSeq(s, 1, Len(p)) = p

SeqsUpTo(S, n) == UNION {[1..m -> S] : m \in 0..n}

(***************************************************************************)
(* The modes of the reasoning environment and its tags.                    *)
(***************************************************************************)
THINK == "think"
GRAMMAR == "grammar"

THINK_OPEN == "THINK_OPEN"
THINK_CLOSE == "THINK_CLOSE"
grammar_open == "grammar_open"
grammar_close == "grammar_close"

(***************************************************************************)
(* The recognizer (p7.p7.ConstrainedGenerator, a native module).  Its      *)
(* grammar here is   S ::= "a" "b" S | "a" "b" | "c" :  the language       *)
(* (ab)^n for n >= 1 and (ab)^n c for n >= 0.                              *)
(***************************************************************************)
RECURSIVE ValidPrefix(_)
ValidPrefix(s) ==
    IF s = <<>> THEN TRUE
    ELSE IF s[1] = "c" THEN Len(s) = 1
    ELSE IF s[1] = "a" THEN Len(s) = 1 \/ (s[2] = "b" /\ ValidPrefix(Suffix(s, 2)))
    ELSE FALSE

\* is_complete() on an accepted buffer
generator_is_complete(buf) == buf # <<>> /\ Last(buf) \in {"b", "c"}

\* feed_raw(text) is atomic: the text is appended when the result is still a
\* valid prefix and the buffer is left as it was otherwise.
Accepts(buf, text) == ValidPrefix(buf \o text)

feed_raw(buf, text) == IF Accepts(buf, text) THEN buf \o text ELSE buf

\* filter_completions(tokens): the strings a clone would accept, in order
filter_completions(buf, tokens) ==
    LET ok(t) == Accepts(buf, t) IN SelectSeq(tokens, ok)

\* filter_completion_indices(vocab): their indices, in order
filter_completion_indices(buf, voc) ==
    LET ok(i) == Accepts(buf, voc[i]) IN SelectSeq([i \in 1..Len(voc) |-> i], ok)

(***************************************************************************)
(* TypedSampler.                                                           *)
(***************************************************************************)
vocab == << <<"a">>, <<"b">>, <<"a", "b">>, <<"c">> >>

NegInf == -1

LogitVectors == [1..Len(vocab) -> 0..MaxLogit]

\* Optional[int]: None is <<>> and n is <<n>>
None == <<>>

Some(x) == <<x>>

\* Every pre_top_k from len(vocab) on slices the same list, the whole one.
PreTopKs == {None} \cup {Some(n) : n \in 0..(Len(vocab) + 1)}

Range(s) == {s[i] : i \in 1..Len(s)}

\* s[:n] of a list, n >= 0
Take(s, n) == Prefix(s, n)

\* list.sort(key=logit, reverse=True) on a list of indices: Python's sort is
\* stable, also when reversed.
RECURSIVE SortDesc_Ascending(_, _)
SortDesc_Ascending(idxs, l) ==
    IF idxs = <<>> THEN <<>>
    ELSE LET sorted == SortDesc_Ascending(SubSeq(idxs, 1, Len(idxs) - 1), l)
             x == idxs[Len(idxs)]
             p == Cardinality({j \in 1..Len(sorted) : l[sorted[j]] <= l[x]})
         IN  SubSeq(sorted, 1, p) \o <<x>> \o SubSeq(sorted, p + 1, Len(sorted))

RECURSIVE SortDesc(_, _)
SortDesc(idxs, l) ==
    IF idxs = <<>> THEN <<>>
    ELSE LET sorted == SortDesc(SubSeq(idxs, 1, Len(idxs) - 1), l)
             x == idxs[Len(idxs)]
             p == Cardinality({j \in 1..Len(sorted) : l[sorted[j]] >= l[x]})
         IN  SubSeq(sorted, 1, p) \o <<x>> \o SubSeq(sorted, p + 1, Len(sorted))

\* indexed = [(i, l) for i, l in enumerate(logits)]; indexed.sort(...)
indexed(l) == SortDesc([i \in 1..Len(l) |-> i], l)

TokensOf(idxs) == [j \in 1..Len(idxs) |-> vocab[idxs[j]]]

\* The candidates among idxs whose token string the filter kept.
ValidAmong(buf, idxs) ==
    LET valid_set == Range(filter_completions(buf, TokensOf(idxs)))
        ok(i) == vocab[i] \in valid_set
    IN  SelectSeq(idxs, ok)

\* infer: the indices that keep their logit
infer_valid_indices_Unfiltered(buf, l, ptk) ==
    IF ptk # None /\ ptk[1] < Len(l)
    THEN Range(Take(indexed(l), ptk[1]))
    ELSE 1..Len(l)

infer_valid_indices(buf, l, ptk) ==
    IF ptk # None /\ ptk[1] < Len(l)
    THEN Range(ValidAmong(buf, Take(indexed(l), ptk[1])))
    ELSE Range(filter_completion_indices(buf, vocab))

infer(buf, l, ptk) ==
    LET valid_indices == infer_valid_indices(buf, l, ptk)
    IN  [i \in 1..Len(l) |-> IF i \notin valid_indices THEN NegInf ELSE l[i]]

\* infer_text: the valid pairs, best first
infer_text_valid_pairs_Unsorted(buf, l, ptk) ==
    IF ptk # None
    THEN ValidAmong(buf, Take(indexed(l), ptk[1]))
    ELSE filter_completion_indices(buf, vocab)

infer_text_valid_pairs(buf, l, ptk) ==
    IF ptk # None
    THEN ValidAmong(buf, Take(indexed(l), ptk[1]))
    ELSE SortDesc(filter_completion_indices(buf, vocab), l)

infer_text(buf, l, k, ptk) == TokensOf(Take(infer_text_valid_pairs(buf, l, ptk), k))

\* infer_greedy: the valid pairs, best first ("if pre_top_k:" is false for
\* None and for 0)
infer_greedy_valid_pairs_Unfiltered(buf, l, ptk) ==
    IF ptk # None /\ ptk[1] # 0
    THEN Take(indexed(l), ptk[1])
    ELSE indexed(l)

infer_greedy_valid_pairs(buf, l, ptk) ==
    IF ptk # None /\ ptk[1] # 0
    THEN ValidAmong(buf, Take(indexed(l), ptk[1]))
    ELSE SortDesc(filter_completion_indices(buf, vocab), l)

\* What infer_greedy can do: return None, return a token, or raise (max() of
\* an empty top_k, for k = 0).  random.random() makes the weighted choice,
\* which can fall on any of the top k.
GreedyNone == [kind |-> "none", index |-> 0]

GreedyRaise == [kind |-> "raised", index |-> 0]

GreedyToken(i) == [kind |-> "token", index |-> i]

infer_greedy(buf, l, k, ptk) ==
    LET valid_pairs == infer_greedy_valid_pairs(buf, l, ptk)
        top_k == Take(valid_pairs, k)
    IN  IF valid_pairs = <<>> THEN {GreedyNone}
        ELSE IF k = 1 \/ Len(valid_pairs) = 1 THEN {GreedyToken(valid_pairs[1])}
        ELSE IF top_k = <<>> THEN {GreedyRaise}
        ELSE {GreedyToken(top_k[j]) : j \in 1..Len(top_k)}

\* infer_unconstrained(k): one of the k highest-logit tokens, the grammar
\* ignored; None when k = 0.
infer_unconstrained(l, k) ==
    LET top_k == Take(indexed(l), k)
    IN  IF top_k = <<>> THEN {GreedyNone}
        ELSE IF k = 1 THEN {GreedyToken(top_k[1])}
        ELSE {GreedyToken(top_k[j]) : j \in 1..Len(top_k)}

NoRet == [op |-> "none"]

SmpIdle ==
    /\ buffer = <<>>
    /\ logits = <<>>
    /\ pre_top_k = None
    /\ greedy_k = 1
    /\ ret = NoRet

EnvIdle ==
    /\ pc = "idle"
    /\ max_blocks = 0
    /\ start_thinking = TRUE
    /\ initial = <<>>
    /\ block_idx = 0
    /\ current_mode = THINK
    /\ accumulated = <<>>
    /\ blocks = <<>>
    /\ stopped_reason = "max_tokens"
    /\ calls = <<>>
    /\ mode_switches = <<>>
    /\ think_stop_token = None
    /\ think_stop_tag = ""

NoResult == [stopped_reason |-> "none"]

GenIdle ==
    /\ gen_pc = "idle"
    /\ gen_initial = <<>>
    /\ max_tokens = 0
    /\ stop_on_complete = FALSE
    /\ step = 0
    /\ tokens_generated = 0
    /\ yielded = <<>>
    /\ result = NoResult
    /\ logit_calls = 0
    /\ entry = "none"
    /\ raised = None
    /\ generated_token_ids = <<>>
    /\ pulls = 0
    /\ received = 0
    /\ callbacks = <<>>
    /\ full_text = <<>>

(***************************************************************************)
(* The API service at rest.                                                *)
(***************************************************************************)
NumThreads == 2

Threads == 1..NumThreads

ModelNames == {"m1", "m2"}

\* The keys of _models: f"{model_name}_model" and f"{model_name}_tokenizer"
CacheKeys == ModelNames \X {"model", "tokenizer"}

NoWorkerResult == [kind |-> "none"]

CacheIdle ==
    /\ models = [k \in CacheKeys |-> None]
    /\ cache_pc = [t \in Threads |-> "idle"]
    /\ cache_name = [t \in Threads |-> "m1"]
    /\ cache_local = [t \in Threads |-> None]
    /\ cache_ret = [t \in Threads |-> None]
    /\ loads = [n \in ModelNames |-> 0]

WorkerIdle ==
    /\ worker_pc = "none"
    /\ worker_steps = 0
    /\ token_queue = <<>>
    /\ done_event = FALSE
    /\ result_holder = NoWorkerResult
    /\ stream_produced = <<>>

StreamIdle ==
    /\ stream = "none"
    /\ stream_initial = <<>>
    /\ stream_pc = "idle"
    /\ active_generations = {}
    /\ events = <<>>
    /\ stream_step = 0
    /\ stream_text = <<>>
    /\ finish_reason = ""
    /\ WorkerIdle

(***************************************************************************)
(* The built-in grammars (src/proposition_7/grammars.py).  The text of a   *)
(* spec file, a syntax hint and a worked example are opaque values.        *)
(***************************************************************************)
\* _load_spec(name): the text of examples/<name>.spec
load_spec(name) == <<"spec", name>>

Items(name, what, n) == [i \in 1..n |-> <<name, what, i>>]

GrammarInfo(key, human, hints, examples) ==
    [spec |-> load_spec(key), name |-> human,
     syntax_hints |-> Items(key, "hint", hints),
     examples |-> Items(key, "example", examples)]

\* The keys of GRAMMARS, in the order of the dict
GrammarKeys == <<"stlc", "imp", "fun", "toy", "json">>

GRAMMARS ==
    [key \in Range(GrammarKeys) |->
        CASE key = "stlc" -> GrammarInfo(key, "Simply Typed Lambda Calculus", 4, 3)
          [] key = "imp" -> GrammarInfo(key, "IMP", 5, 4)
          [] key = "fun" -> GrammarInfo(key, "Fun", 5, 4)
          [] key = "toy" -> GrammarInfo(key, "Toy: Beep Boop", 2, 2)
          [] key = "json" -> GrammarInfo(key, "JSON", 3, 3)]

\* The grammars module is not imported and the filter is not called.
LibIdle ==
    /\ grammars = <<>>
    /\ registry_calls = <<>>
    /\ mask_logits = <<>>
    /\ mask_text = <<>>
    /\ masked = None
    /\ compared = None

SvcIdle == CacheIdle /\ StreamIdle /\ LibIdle

\* A sampler on a fresh recognizer; logit_fn, pre_top_k and k are drawn here.
SmpInit ==
    /\ buffer = <<>>
    /\ logits \in LogitVectors
    /\ pre_top_k \in PreTopKs
    /\ greedy_k \in 0..MaxK
    /\ ret = NoRet
    /\ EnvIdle
    /\ GenIdle
    /\ SvcIdle

\* What feed_raw does on a rejection is the native module's: it raises, or
\* it returns false.
RejectSignals == {"raise", "false"}

\* TypedSampler.feed(text): the value of feed_raw is not looked at.
feed_outcome(accepted, signal) ==
    IF ~accepted /\ signal = "raise" THEN "raised" ELSE "returned"

Feed(text, signal) ==
    /\ Len(buffer) + Len(text) <= MaxText
    /\ buffer' = feed_raw(buffer, text)
    /\ ret' = [op |-> "feed", accepted |-> Accepts(buffer, text),
               outcome |-> feed_outcome(Accepts(buffer, text), signal)]
    /\ UNCHANGED <<logits, pre_top_k, greedy_k, envVars, genVars, svcVars>>

Reset ==
    /\ buffer' = <<>>
    /\ ret' = [op |-> "reset"]
    /\ UNCHANGED <<logits, pre_top_k, greedy_k, envVars, genVars, svcVars>>

\* Each inference method calls self.logit_fn() once, as its first statement;
\* logit_calls is the number of calls the operation made.
Infer ==
    /\ ret' = [op |-> "infer", value |-> infer(buffer, logits, pre_top_k),
               logit_calls |-> 1]
    /\ UNCHANGED <<buffer, logits, pre_top_k, greedy_k, envVars, genVars, svcVars>>

InferText ==
    /\ ret' = [op |-> "infer_text",
               value |-> infer_text(buffer, logits, greedy_k, pre_top_k),
               logit_calls |-> 1]
    /\ UNCHANGED <<buffer, logits, pre_top_k, greedy_k, envVars, genVars, svcVars>>

InferGreedy_Feeds ==
    /\ \E r \in infer_greedy(buffer, logits, greedy_k, pre_top_k) :
           /\ ret' = [op |-> "infer_greedy", value |-> r, logit_calls |-> 1]
           /\ buffer' = (IF r.kind = "token" /\ Len(buffer) < MaxText
                         THEN feed_raw(buffer, vocab[r.index]) ELSE buffer)
    /\ UNCHANGED <<logits, pre_top_k, greedy_k, envVars, genVars, svcVars>>

InferGreedy ==
    /\ \E r \in infer_greedy(buffer, logits, greedy_k, pre_top_k) :
           ret' = [op |-> "infer_greedy", value |-> r, logit_calls |-> 1]
    /\ UNCHANGED <<buffer, logits, pre_top_k, greedy_k, envVars, genVars, svcVars>>

InferUnconstrained ==
    /\ \E r \in infer_unconstrained(logits, greedy_k) :
           ret' = [op |-> "infer_unconstrained", value |-> r, logit_calls |-> 1]
    /\ UNCHANGED <<buffer, logits, pre_top_k, greedy_k, envVars, genVars, svcVars>>

FeedTexts == Range(vocab) \cup {<<>>}

SmpNext ==
    \/ \E text \in FeedTexts, signal \in RejectSignals : Feed(text, signal)
    \/ Reset
    \/ Infer
    \/ InferText
    \/ InferGreedy
    \/ InferUnconstrained

SpecSampler == SmpInit /\ [][SmpNext]_vars

(***************************************************************************)
(* The generation loops.  ConstrainedModel.iter_constrained and            *)
(* iter_unconstrained are generators: nothing of them runs before the      *)
(* caller's first next(), and each next() runs them up to the next yield   *)
(* or to their return.  Their callers are the wrappers generate,           *)
(* until_complete and generate_unconstrained, or a consumer of its own     *)
(* such as generate_constrained_stream.  inference.generate and            *)
(* inference.until_complete are plain loops.                               *)
(***************************************************************************)
ConstrainedGenerators == {"iter_constrained", "generate", "until_complete"}

UnconstrainedGenerators == {"iter_unconstrained", "generate_unconstrained"}

InferenceLoops == {"inference.generate", "inference.until_complete"}

\* The entry points that drive a generator to its end and call on_token.
Wrappers == {"generate", "until_complete", "generate_unconstrained"}

Entries == ConstrainedGenerators \cup UnconstrainedGenerators \cup InferenceLoops

\* stop_on_complete: an argument of iter_constrained, fixed by the wrappers;
\* inference.until_complete has the checks and inference.generate has not.
StopOnCompletes(e) ==
    IF e = "iter_constrained" THEN BOOLEAN
    ELSE IF e \in {"until_complete", "inference.until_complete"} THEN {TRUE}
    ELSE {FALSE}

GenInitials == {<<>>, <<"a">>, <<"b">>, <<"a", "b">>}

\* The exceptions the logit function can raise.
LogitErrors == {"TypeError", "ModelError"}

GenerationResult(text, complete, n, reason) ==
    [text |-> text, is_complete |-> complete, tokens_generated |-> n,
     stopped_reason |-> reason]

\* return GenerationResult(text=sampler.current_text(), ...)
Summary(buf, n, reason) ==
    GenerationResult(buf, generator_is_complete(buf), n, reason)

\* What the last sampler operation of a loop returned.
FeedRet(accepted, outcome) ==
    [op |-> "feed", accepted |-> accepted, outcome |-> outcome]

\* What sampler.feed can do with a text: return, or raise when the
\* recognizer signals its rejection by raising.
FeedOutcomes(accepted) == {feed_outcome(accepted, signal) : signal \in RejectSignals}

\* for step in range(max_tokens)
GenLoopContinues_OffByOne(s, mt) == s <= mt

GenLoopContinues(s, mt) == s < mt

\* "if stop_on_complete and sampler.is_complete()"
StopsOnComplete_Never(soc, buf) == FALSE

StopsOnComplete(soc, buf) == soc /\ generator_is_complete(buf)

\* sampler.infer_greedy(...) is called outside the try whose handler turns a
\* TypeError into a stop reason: whatever it raises leaves the loop.
InferPropagates_InsideTry(exc) == exc # "TypeError"

InferPropagates(exc) == TRUE

\* One call of infer_greedy is one call of the logit function.
LogitCallsAfter_Twice(n) == n + 2

LogitCallsAfter(n) == n + 1

GenInit ==
    /\ entry \in Entries
    /\ gen_pc = (IF entry \in InferenceLoops THEN "start" ELSE "created")
    /\ gen_initial \in (IF entry \in UnconstrainedGenerators THEN {<<>>}
                        ELSE GenInitials)
    /\ max_tokens \in 0..MaxTokens
    /\ stop_on_complete \in StopOnCompletes(entry)
    /\ step = 0
    /\ tokens_generated = 0
    /\ yielded = <<>>
    /\ result = NoResult
    /\ logit_calls = 0
    /\ raised = None
    /\ generated_token_ids = <<>>
    /\ pulls = 0
    /\ received = 0
    /\ callbacks = <<>>
    /\ full_text = gen_initial
    /\ buffer = <<>>
    /\ logits = <<>>
    /\ pre_top_k \in (IF entry \in UnconstrainedGenerators THEN {None}
                      ELSE PreTopKs)
    /\ greedy_k \in (IF entry \in UnconstrainedGenerators THEN {1}
                     ELSE 0..MaxK)
    /\ ret = NoRet
    /\ EnvIdle
    /\ SvcIdle

\* The code of a constrained loop before its "for": the initial text is fed
\* when it is not empty, and a complete buffer ends a stop-on-complete call.
LoopStart(signal) ==
    LET fed == gen_initial # <<>>
        accepted == Accepts(<<>>, gen_initial)
        buf == IF fed THEN feed_raw(<<>>, gen_initial) ELSE <<>>
    IN  /\ buffer' = buf
        /\ ret' = (IF fed THEN FeedRet(accepted, feed_outcome(accepted, signal))
                   ELSE ret)
        /\ IF fed /\ feed_outcome(accepted, signal) = "raised"
           THEN /\ result' = GenerationResult(gen_initial, FALSE, 0, "type_error")
                /\ gen_pc' = "done"
           ELSE IF StopsOnComplete(stop_on_complete, buf)
           THEN /\ result' = GenerationResult(buf, TRUE, 0, "complete")
                /\ gen_pc' = "done"
           ELSE /\ result' = result
                /\ gen_pc' = "loop"
        /\ UNCHANGED <<step, tokens_generated, yielded, logit_calls, raised,
                       generated_token_ids>>
        /\ UNCHANGED <<genArgs, genCaller, logits, pre_top_k, greedy_k, envVars, svcVars>>

\* next(gen): the caller asks for a token.  The first pull starts the
\* generator's code and every later one resumes it after its yield.
GenPull ==
    /\ gen_pc \in {"created", "handled"}
    /\ pulls' = pulls + 1
    /\ gen_pc' = (IF gen_pc = "handled" THEN "resumed"
                  ELSE IF entry \in UnconstrainedGenerators THEN "loop"
                  ELSE "start")
    /\ UNCHANGED <<genArgs, genLocals, received, callbacks, full_text>>
    /\ UNCHANGED <<smpVars, envVars, svcVars>>

GenStart(signal) ==
    /\ gen_pc = "start"
    /\ entry \in ConstrainedGenerators
    /\ LoopStart(signal)

\* One iteration of iter_constrained up to its yield.
GenStep(l) ==
    /\ gen_pc = "loop"
    /\ entry \in ConstrainedGenerators
    /\ GenLoopContinues(step, max_tokens)
    /\ logit_calls' = LogitCallsAfter(logit_calls)
    /\ \E r \in infer_greedy(buffer, l, greedy_k, pre_top_k) :
           IF r.kind = "raised"
           THEN /\ gen_pc' = "raised"
                /\ raised' = Some("ValueError")
                /\ ret' = [op |-> "infer_greedy", value |-> r]
                /\ UNCHANGED <<buffer, tokens_generated, yielded, result>>
           ELSE IF r.kind = "none"
           THEN /\ result' = Summary(buffer, tokens_generated, "no_valid")
                /\ gen_pc' = "done"
                /\ ret' = [op |-> "infer_greedy", value |-> r]
                /\ UNCHANGED <<buffer, tokens_generated, yielded, raised>>
           ELSE LET next_token == vocab[r.index]
                    accepted == Accepts(buffer, next_token)
                IN  \E outcome \in FeedOutcomes(accepted) :
                    /\ ret' = FeedRet(accepted, outcome)
                    /\ IF outcome = "raised"
                       THEN /\ result' = Summary(buffer, tokens_generated, "type_error")
                            /\ gen_pc' = "done"
                            /\ UNCHANGED <<buffer, tokens_generated, yielded, raised>>
                       ELSE /\ buffer' = feed_raw(buffer, next_token)
                            /\ tokens_generated' = tokens_generated + 1
                            /\ yielded' = Append(yielded, next_token)
                            /\ gen_pc' = "yielded"
                            /\ UNCHANGED <<result, raised>>
    /\ UNCHANGED <<step, generated_token_ids>>
    /\ UNCHANGED <<genArgs, genCaller, logits, pre_top_k, greedy_k, envVars, svcVars>>

\* The logit function raises inside infer_greedy.
GenLogitRaise(exc) ==
    /\ gen_pc = "loop"
    /\ entry \in ConstrainedGenerators
    /\ GenLoopContinues(step, max_tokens)
    /\ logit_calls' = LogitCallsAfter(logit_calls)
    /\ ret' = [op |-> "logit_fn", exc |-> exc]
    /\ IF InferPropagates(exc)
       THEN /\ gen_pc' = "raised"
            /\ raised' = Some(exc)
            /\ UNCHANGED result
       ELSE /\ result' = Summary(buffer, tokens_generated, "type_error")
            /\ gen_pc' = "done"
            /\ UNCHANGED raised
    /\ UNCHANGED <<step, tokens_generated, yielded, generated_token_ids>>
    /\ UNCHANGED <<genArgs, genCaller, buffer, logits, pre_top_k, greedy_k,
                   envVars, svcVars>>

\* The code of iter_constrained after its yield.
GenResume ==
    /\ gen_pc = "resumed"
    /\ entry \in ConstrainedGenerators
    /\ IF StopsOnComplete(stop_on_complete, buffer)
       THEN /\ result' = Summary(buffer, tokens_generated, "complete")
            /\ gen_pc' = "done"
            /\ UNCHANGED step
       ELSE /\ step' = step + 1
            /\ gen_pc' = "loop"
            /\ UNCHANGED result
    /\ UNCHANGED <<tokens_generated, yielded, logit_calls, raised,
                   generated_token_ids>>
    /\ UNCHANGED <<genArgs, genCaller, smpVars, envVars, svcVars>>

\* range(max_tokens) is exhausted.
GenExhausted ==
    /\ gen_pc = "loop"
    /\ entry \in ConstrainedGenerators
    /\ ~GenLoopContinues(step, max_tokens)
    /\ result' = Summary(buffer, tokens_generated, "max_tokens")
    /\ gen_pc' = "done"
    /\ UNCHANGED <<step, tokens_generated, yielded, logit_calls, raised,
                   generated_token_ids>>
    /\ UNCHANGED <<genArgs, genCaller, smpVars, envVars, svcVars>>

(***************************************************************************)
(* The caller's side of a generator.                                       *)
(***************************************************************************)
\* on_token(token, tokens_generated - 1), after "tokens_generated += 1"
OnTokenIndex_CountAfter(n) == n

OnTokenIndex(n) == n - 1

\* constrained_text += token
StreamAppend_Prepend(text, token) == token \o text

StreamAppend(text, token) == text \o token

\* The caller takes the token the generator yielded: a wrapper counts it and
\* calls on_token, a consumer of the iterator adds it to its text.
GenReceive ==
    /\ gen_pc = "yielded"
    /\ received' = received + 1
    /\ IF entry \in Wrappers
       THEN /\ callbacks' = Append(callbacks,
                                   <<Last(yielded), OnTokenIndex(received')>>)
            /\ UNCHANGED full_text
       ELSE /\ full_text' = StreamAppend(full_text, Last(yielded))
            /\ UNCHANGED callbacks
    /\ gen_pc' = "handled"
    /\ UNCHANGED <<genArgs, genLocals, pulls>>
    /\ UNCHANGED <<smpVars, envVars, svcVars>>

\* A consumer of the iterator stops pulling: the generator is closed where
\* it is suspended.  The wrappers pull until the generator ends.
GenAbandon ==
    /\ gen_pc \in {"created", "handled"}
    /\ entry \notin Wrappers
    /\ gen_pc' = "closed"
    /\ UNCHANGED <<genArgs, genLocals, genCaller>>
    /\ UNCHANGED <<smpVars, envVars, svcVars>>

(***************************************************************************)
(* ConstrainedModel.iter_unconstrained.  The tokenizer is the model's: a   *)
(* token id stands for a piece of text, and decode joins the pieces and    *)
(* drops the space a first piece starts with.                              *)
(***************************************************************************)
pieces == << <<" ", "t">>, <<"u">>, <<THINK_CLOSE>>, <<"u", THINK_CLOSE>> >>

PiecesOf(ids) == [j \in 1..Len(ids) |-> pieces[ids[j]]]

RECURSIVE Flatten(_)
Flatten(tokens) ==
    IF tokens = <<>> THEN <<>> ELSE tokens[1] \o Flatten(Suffix(tokens, 1))

\* tokenizer.decode(ids)
decode(ids) ==
    LET text == Flatten(PiecesOf(ids))
    IN  IF text # <<>> /\ text[1] = " " THEN Suffix(text, 1) ELSE text

\* len(s) of a string: a tag is one symbol here and several characters.
Tags == {THINK_OPEN, THINK_CLOSE, grammar_open, grammar_close}

StrLen(s) == Len(s) + Cardinality({i \in 1..Len(s) : s[i] \in Tags})

EndsWith(s, t) == Len(t) <= Len(s) /\ Suffix(s, Len(s) - Len(t)) = t

\* stop_tokens_unconstrained(grammar_name)
stop_tokens == {<<THINK_CLOSE>>, <<grammar_open>>, <<grammar_close>>}

IsStopToken_ExactOnly(token_str) == token_str \in stop_tokens

\* token_str in stop_tokens or any(len(stop) > 1 and token_str.endswith(stop) ...)
IsStopToken(token_str) ==
    \/ token_str \in stop_tokens
    \/ \E stop \in stop_tokens : StrLen(stop) > 1 /\ EndsWith(token_str, stop)

\* return GenerationResult(text=initial + decode(generated_token_ids), ...)
UncSummary(ids, n, reason) ==
    GenerationResult(gen_initial \o decode(ids), FALSE, n, reason)

\* One iteration of iter_unconstrained up to its yield; top_idx is the index
\* the multinomial draw falls on, kept as what the last sampling returned.
UncStep(top_idx) ==
    /\ gen_pc = "loop"
    /\ entry \in UnconstrainedGenerators
    /\ GenLoopContinues(step, max_tokens)
    /\ logit_calls' = LogitCallsAfter(logit_calls)
    /\ ret' = [op |-> "multinomial", top_idx |-> top_idx]
    /\ IF IsStopToken(decode(<<top_idx>>))
       THEN /\ result' = UncSummary(generated_token_ids, tokens_generated, "stop_token")
            /\ gen_pc' = "done"
            /\ UNCHANGED <<generated_token_ids, tokens_generated, yielded>>
       ELSE LET ids == Append(generated_token_ids, top_idx)
                current_text == decode(ids)
                prev_text == decode(generated_token_ids)
                token_display == IF tokens_generated + 1 = 1 THEN current_text
                                 ELSE Suffix(current_text, Len(prev_text))
            IN  /\ generated_token_ids' = ids
                /\ tokens_generated' = tokens_generated + 1
                /\ yielded' = Append(yielded, token_display)
                /\ gen_pc' = "yielded"
                /\ UNCHANGED result
    /\ UNCHANGED <<step, raised>>
    /\ UNCHANGED <<genArgs, genCaller, buffer, logits, pre_top_k, greedy_k,
                   envVars, svcVars>>

\* After the yield of iter_unconstrained the loop goes on.
UncResume ==
    /\ gen_pc = "resumed"
    /\ entry \in UnconstrainedGenerators
    /\ step' = step + 1
    /\ gen_pc' = "loop"
    /\ UNCHANGED <<tokens_generated, yielded, result, logit_calls, raised,
                   generated_token_ids>>
    /\ UNCHANGED <<genArgs, genCaller, smpVars, envVars, svcVars>>

UncExhausted ==
    /\ gen_pc = "loop"
    /\ entry \in UnconstrainedGenerators
    /\ ~GenLoopContinues(step, max_tokens)
    /\ result' = UncSummary(generated_token_ids, tokens_generated, "max_tokens")
    /\ gen_pc' = "done"
    /\ UNCHANGED <<step, tokens_generated, yielded, logit_calls, raised,
                   generated_token_ids>>
    /\ UNCHANGED <<genArgs, genCaller, smpVars, envVars, svcVars>>

(***************************************************************************)
(* inference.generate and inference.until_complete.                        *)
(***************************************************************************)
InfStart(signal) ==
    /\ gen_pc = "start"
    /\ entry \in InferenceLoops
    /\ LoopStart(signal)

\* One iteration: infer_greedy, feed, the count, on_token(next_token, step)
\* and, in until_complete, the completion check.
InfStep(l) ==
    /\ gen_pc = "loop"
    /\ entry \in InferenceLoops
    /\ GenLoopContinues(step, max_tokens)
    /\ logit_calls' = LogitCallsAfter(logit_calls)
    /\ \E r \in infer_greedy(buffer, l, greedy_k, pre_top_k) :
           IF r.kind = "raised"
           THEN /\ gen_pc' = "raised"
                /\ raised' = Some("ValueError")
                /\ ret' = [op |-> "infer_greedy", value |-> r]
                /\ UNCHANGED <<buffer, tokens_generated, callbacks, result, step>>
           ELSE IF r.kind = "none"
           THEN /\ result' = Summary(buffer, tokens_generated, "no_valid")
                /\ gen_pc' = "done"
                /\ ret' = [op |-> "infer_greedy", value |-> r]
                /\ UNCHANGED <<buffer, tokens_generated, callbacks, raised, step>>
           ELSE LET next_token == vocab[r.index]
                    accepted == Accepts(buffer, next_token)
                IN  \E outcome \in FeedOutcomes(accepted) :
                    /\ ret' = FeedRet(accepted, outcome)
                    /\ IF outcome = "raised"
                       THEN /\ result' = Summary(buffer, tokens_generated, "type_error")
                            /\ gen_pc' = "done"
                            /\ UNCHANGED <<buffer, tokens_generated, callbacks,
                                           raised, step>>
                       ELSE /\ buffer' = feed_raw(buffer, next_token)
                            /\ tokens_generated' = tokens_generated + 1
                            /\ callbacks' = Append(callbacks, <<next_token, step>>)
                            /\ UNCHANGED raised
                            /\ IF StopsOnComplete(stop_on_complete, buffer')
                               THEN /\ result' = Summary(buffer', tokens_generated',
                                                         "complete")
                                    /\ gen_pc' = "done"
                                    /\ UNCHANGED step
                               ELSE /\ step' = step + 1
                                    /\ UNCHANGED <<gen_pc, result>>
    /\ UNCHANGED <<yielded, generated_token_ids, pulls, received, full_text>>
    /\ UNCHANGED <<genArgs, logits, pre_top_k, greedy_k, envVars, svcVars>>

InfLogitRaise(exc) ==
    /\ gen_pc = "loop"
    /\ entry \in InferenceLoops
    /\ GenLoopContinues(step, max_tokens)
    /\ logit_calls' = LogitCallsAfter(logit_calls)
    /\ ret' = [op |-> "logit_fn", exc |-> exc]
    /\ IF InferPropagates(exc)
       THEN /\ gen_pc' = "raised"
            /\ raised' = Some(exc)
            /\ UNCHANGED result
       ELSE /\ result' = Summary(buffer, tokens_generated, "type_error")
            /\ gen_pc' = "done"
            /\ UNCHANGED raised
    /\ UNCHANGED <<step, tokens_generated, yielded, generated_token_ids>>
    /\ UNCHANGED <<genArgs, genCaller, buffer, logits, pre_top_k, greedy_k,
                   envVars, svcVars>>

InfExhausted ==
    /\ gen_pc = "loop"
    /\ entry \in InferenceLoops
    /\ ~GenLoopContinues(step, max_tokens)
    /\ result' = Summary(buffer, tokens_generated, "max_tokens")
    /\ gen_pc' = "done"
    /\ UNCHANGED <<step, tokens_generated, yielded, logit_calls, raised,
                   generated_token_ids>>
    /\ UNCHANGED <<genArgs, genCaller, smpVars, envVars, svcVars>>

GenNext ==
    \/ GenPull
    \/ \E signal \in RejectSignals : GenStart(signal)
    \/ \E l \in LogitVectors : GenStep(l)
    \/ \E exc \in LogitErrors : GenLogitRaise(exc)
    \/ GenResume
    \/ GenExhausted
    \/ GenReceive
    \/ GenAbandon
    \/ \E top_idx \in 1..Len(pieces) : UncStep(top_idx)
    \/ UncResume
    \/ UncExhausted
    \/ \E signal \in RejectSignals : InfStart(signal)
    \/ \E l \in LogitVectors : InfStep(l)
    \/ \E exc \in LogitErrors : InfLogitRaise(exc)
    \/ InfExhausted

SpecGen == GenInit /\ [][GenNext]_vars

(***************************************************************************)
(* ReasoningEnvironment: blocks, prompts and generators.                    *)
(***************************************************************************)
ThinkBlock(content) == [kind |-> THINK, content |-> content, is_complete |-> FALSE]

GrammarBlock(content, is_complete) ==
    [kind |-> GRAMMAR, content |-> content, is_complete |-> is_complete]

\* The prompt of the call, after the system prompt was put before it.
full_prompt == <<"s", "NL", "NL", "p">>

\* What the unconstrained generator can return as result.text.
ThinkTexts == SeqsUpTo({"t", THINK_CLOSE, grammar_open, grammar_close}, MaxThinkLen)

\* The stop token at which a Think generation stopped: none, or one of the
\* tags that stop_tokens_unconstrained(grammar_name) adds.
ThinkStops == {None, Some(THINK_CLOSE), Some(grammar_open), Some(grammar_close)}

\* What the constrained generator can add to its initial text.
FormalTexts == {<<>>, <<"g">>}

Initials == {<<>>, <<"i">>}

\* The tag search of _generate_think: the first tag, in the order of the
\* list, that the text contains.
StopTagOf(text) ==
    IF Contains(text, THINK_CLOSE) THEN THINK_CLOSE
    ELSE IF Contains(text, grammar_open) THEN grammar_open
    ELSE IF Contains(text, grammar_close) THEN grammar_close
    ELSE ""

generate_think(text) ==
    LET stop_tag == StopTagOf(text)
    IN  [content  |-> IF stop_tag = "" THEN text
                      ELSE Prefix(text, Find(text, stop_tag) - 1),
         stop_tag |-> stop_tag]

\* The accumulated prompt at the start of the loop.
StartPrompt_NoTag(thinking) == full_prompt

StartPrompt(thinking) ==
    IF thinking THEN full_prompt \o <<"NL", THINK_OPEN>>
    ELSE full_prompt \o <<"NL", grammar_open>>

\* for block_idx in range(max_blocks)
LoopContinues_OffByOne(idx, mb) == idx <= mb

LoopContinues(idx, mb) == idx < mb

\* The tags appended after the content of a Think block.
ThinkTransition(stop_tag) ==
    (IF stop_tag = THINK_CLOSE THEN <<THINK_CLOSE>>
     ELSE IF stop_tag = grammar_open THEN <<grammar_open>>
     ELSE <<THINK_CLOSE, "NL", grammar_open>>)
    \o (IF stop_tag # grammar_open THEN <<"NL", grammar_open>> ELSE <<>>)

\* current_mode = Mode.GRAMMAR, after the if on stop_tag
ModeAfterThink_ByTag(stop_tag) == IF stop_tag = "" THEN THINK ELSE GRAMMAR

ModeAfterThink(stop_tag) == GRAMMAR

FinalReason_AlwaysComplete(reason) == "complete"

\* if result.stopped_reason != "complete": result.stopped_reason = "max_blocks"
FinalReason(reason) == IF reason # "complete" THEN "max_blocks" ELSE reason

ModeTag(mode) == IF mode = THINK THEN THINK_OPEN ELSE grammar_open

ModeSwitch_AfterGenerator(mode, ncalls) == <<mode, ModeTag(mode), ncalls + 1>>

\* on_mode_switch(current_mode, tag), called at the top of a block step: the
\* arguments, and the number of generator calls made before it.
ModeSwitch(mode, ncalls) == <<mode, ModeTag(mode), ncalls>>

Call(mode, prompt, init) == [mode |-> mode, prompt |-> prompt, initial |-> init]

HasGrammarBlock(bs) == \E i \in 1..Len(bs) : bs[i].kind = GRAMMAR

UseInitial_EveryBlock(bs, init) == init

\* use_initial = initial if not result.grammar_blocks else ""
UseInitial(bs, init) == IF ~HasGrammarBlock(bs) THEN init ELSE <<>>

(***************************************************************************)
(* ReasoningEnvironment.generate, one action per step of its loop.         *)
(***************************************************************************)
EnvInit ==
    /\ pc = "start"
    /\ max_blocks \in 0..MaxBlocks
    /\ start_thinking \in BOOLEAN
    /\ initial \in Initials
    /\ block_idx = 0
    /\ current_mode = THINK
    /\ accumulated = <<>>
    /\ blocks = <<>>
    /\ stopped_reason = "max_tokens"
    /\ calls = <<>>
    /\ mode_switches = <<>>
    /\ think_stop_token = None
    /\ think_stop_tag = ""
    /\ SmpIdle
    /\ GenIdle
    /\ SvcIdle

EnvBegin ==
    /\ UNCHANGED <<smpVars, genVars, svcVars>>
    /\ pc = "start"
    /\ current_mode' = IF start_thinking THEN THINK ELSE GRAMMAR
    /\ accumulated' = StartPrompt(start_thinking)
    /\ pc' = "loop"
    /\ UNCHANGED <<max_blocks, start_thinking, initial, block_idx, blocks,
                   stopped_reason, calls, mode_switches, think_stop_token,
                   think_stop_tag>>

\* A Think step.  generate_unconstrained returns the text generated before
\* the stop token, which is not part of it (llm.py:499-506, 519), or the
\* text of a run that used up its budget; a stop token comes within the
\* budget.
ThinkStep(text) ==
    /\ UNCHANGED <<smpVars, genVars, svcVars>>
    /\ pc = "loop"
    /\ LoopContinues(block_idx, max_blocks)
    /\ current_mode = THINK
    /\ LET r == generate_think(text)
       IN  /\ blocks' = Append(blocks, ThinkBlock(r.content))
           /\ accumulated' = accumulated \o r.content \o ThinkTransition(r.stop_tag)
           /\ think_stop_tag' = r.stop_tag
    /\ think_stop_token' \in
           {stop \in ThinkStops : stop # None => Len(text) < MaxThinkLen}
    /\ mode_switches' = Append(mode_switches, ModeSwitch(current_mode, Len(calls)))
    /\ calls' = Append(calls, Call(THINK, accumulated, <<>>))
    /\ current_mode' = ModeAfterThink(generate_think(text).stop_tag)
    /\ block_idx' = block_idx + 1
    /\ UNCHANGED <<pc, max_blocks, start_thinking, initial, stopped_reason>>

\* The unconstrained generator raised: nothing catches it.
ThinkRaise ==
    /\ UNCHANGED <<smpVars, genVars, svcVars>>
    /\ pc = "loop"
    /\ LoopContinues(block_idx, max_blocks)
    /\ current_mode = THINK
    /\ mode_switches' = Append(mode_switches, ModeSwitch(current_mode, Len(calls)))
    /\ calls' = Append(calls, Call(THINK, accumulated, <<>>))
    /\ pc' = "raised"
    /\ UNCHANGED <<max_blocks, start_thinking, initial, block_idx, current_mode,
                   accumulated, blocks, stopped_reason, think_stop_token,
                   think_stop_tag>>

GrammarStep_NoBreak(text, is_complete) ==
    /\ UNCHANGED <<smpVars, genVars, svcVars>>
    /\ pc = "loop"
    /\ LoopContinues(block_idx, max_blocks)
    /\ current_mode = GRAMMAR
    /\ LET use_initial == UseInitial(blocks, initial)
           content == use_initial \o text
       IN  /\ calls' = Append(calls, Call(GRAMMAR, accumulated, use_initial))
           /\ blocks' = Append(blocks, GrammarBlock(content, is_complete))
           /\ accumulated' = accumulated \o content \o <<grammar_close>>
                                \o <<"NL", THINK_OPEN>>
    /\ mode_switches' = Append(mode_switches, ModeSwitch(current_mode, Len(calls)))
    /\ stopped_reason' = IF is_complete THEN "complete" ELSE stopped_reason
    /\ current_mode' = THINK
    /\ block_idx' = block_idx + 1
    /\ think_stop_token' = None
    /\ think_stop_tag' = ""
    /\ UNCHANGED <<pc, max_blocks, start_thinking, initial>>

GrammarStep(text, is_complete) ==
    /\ UNCHANGED <<smpVars, genVars, svcVars>>
    /\ pc = "loop"
    /\ LoopContinues(block_idx, max_blocks)
    /\ current_mode = GRAMMAR
    /\ LET use_initial == UseInitial(blocks, initial)
           content == use_initial \o text
       IN  /\ calls' = Append(calls, Call(GRAMMAR, accumulated, use_initial))
           /\ blocks' = Append(blocks, GrammarBlock(content, is_complete))
           /\ accumulated' = accumulated \o content \o <<grammar_close>>
                                \o (IF is_complete THEN <<>> ELSE <<"NL", THINK_OPEN>>)
    /\ mode_switches' = Append(mode_switches, ModeSwitch(current_mode, Len(calls)))
    /\ IF is_complete
       THEN /\ stopped_reason' = FinalReason("complete")
            /\ pc' = "done"
            /\ UNCHANGED <<current_mode, block_idx>>
       ELSE /\ current_mode' = THINK
            /\ block_idx' = block_idx + 1
            /\ UNCHANGED <<pc, stopped_reason>>
    /\ think_stop_token' = None
    /\ think_stop_tag' = ""
    /\ UNCHANGED <<max_blocks, start_thinking, initial>>

\* The constrained generator raised: the loop is left and the result returned.
GrammarRaise ==
    /\ UNCHANGED <<smpVars, genVars, svcVars>>
    /\ pc = "loop"
    /\ LoopContinues(block_idx, max_blocks)
    /\ current_mode = GRAMMAR
    /\ LET use_initial == UseInitial(blocks, initial)
       IN  calls' = Append(calls, Call(GRAMMAR, accumulated, use_initial))
    /\ mode_switches' = Append(mode_switches, ModeSwitch(current_mode, Len(calls)))
    /\ stopped_reason' = FinalReason("error")
    /\ pc' = "done"
    /\ UNCHANGED <<max_blocks, start_thinking, initial, block_idx, current_mode,
                   accumulated, blocks, think_stop_token, think_stop_tag>>

\* range(max_blocks) is exhausted.
LoopExit ==
    /\ UNCHANGED <<smpVars, genVars, svcVars>>
    /\ pc = "loop"
    /\ ~LoopContinues(block_idx, max_blocks)
    /\ stopped_reason' = FinalReason(stopped_reason)
    /\ pc' = "done"
    /\ UNCHANGED <<max_blocks, start_thinking, initial, block_idx, current_mode,
                   accumulated, blocks, calls, mode_switches, think_stop_token,
                   think_stop_tag>>

EnvNext ==
    \/ EnvBegin
    \/ \E text \in ThinkTexts : ThinkStep(text)
    \/ ThinkRaise
    \/ \E text \in FormalTexts, is_complete \in BOOLEAN : GrammarStep(text, is_complete)
    \/ GrammarRaise
    \/ LoopExit

SpecEnv == EnvInit /\ [][EnvNext]_vars

(***************************************************************************)
(* get_model_and_tokenizer (src/api/services/generation.py) called by the  *)
(* threads of the API service.  No lock is taken: a thread can be          *)
(* preempted between any two of the steps below.                           *)
(***************************************************************************)
ModelKey(name) == <<name, "model">>

TokenizerKey(name) == <<name, "tokenizer">>

\* load_model_and_tokenizer(model_name) makes a new pair at every call; the
\* pair is named by the model and the number of the load.
LoadedPair(name, n) == <<name, n>>

\* get_model_and_tokenizer(model_name) is entered.
GetModelEnter(t, name) ==
    /\ cache_pc[t] \in {"idle", "returned"}
    /\ cache_pc' = [cache_pc EXCEPT ![t] = "check"]
    /\ cache_name' = [cache_name EXCEPT ![t] = name]
    /\ cache_local' = [cache_local EXCEPT ![t] = None]
    /\ cache_ret' = [cache_ret EXCEPT ![t] = None]
    /\ UNCHANGED <<models, loads>>
    /\ UNCHANGED <<envVars, smpVars, genVars, streamVars, libVars>>

\* "if cache_key in _models"
CacheHit(m, name) == m[ModelKey(name)] # None

\* if cache_key in _models: return _models[tokenizer_key], _models[cache_key]
GetModelCheck(t) ==
    /\ cache_pc[t] = "check"
    /\ IF CacheHit(models, cache_name[t])
       THEN IF models[TokenizerKey(cache_name[t])] = None
            THEN /\ cache_pc' = [cache_pc EXCEPT ![t] = "key_error"]
                 /\ UNCHANGED cache_ret
            ELSE /\ cache_pc' = [cache_pc EXCEPT ![t] = "returned"]
                 /\ cache_ret' = [cache_ret EXCEPT ![t] =
                        Some(<<models[TokenizerKey(cache_name[t])][1],
                               models[ModelKey(cache_name[t])][1]>>)]
       ELSE /\ cache_pc' = [cache_pc EXCEPT ![t] = "load"]
            /\ UNCHANGED cache_ret
    /\ UNCHANGED <<models, cache_name, cache_local, loads>>
    /\ UNCHANGED <<envVars, smpVars, genVars, streamVars, libVars>>

\* tokenizer, model = model_cls.load_model_and_tokenizer(model_name)
GetModelLoad(t) ==
    /\ cache_pc[t] = "load"
    /\ loads' = [loads EXCEPT ![cache_name[t]] = @ + 1]
    /\ cache_local' = [cache_local EXCEPT ![t] =
                          Some(LoadedPair(cache_name[t], loads'[cache_name[t]]))]
    /\ cache_pc' = [cache_pc EXCEPT ![t] = "store_tokenizer"]
    /\ UNCHANGED <<models, cache_name, cache_ret>>
    /\ UNCHANGED <<envVars, smpVars, genVars, streamVars, libVars>>

GetModelStoreTokenizer_ModelFirst(t) ==
    /\ cache_pc[t] = "store_tokenizer"
    /\ models' = [models EXCEPT ![ModelKey(cache_name[t])] = cache_local[t]]
    /\ cache_pc' = [cache_pc EXCEPT ![t] = "store_model"]
    /\ UNCHANGED <<cache_name, cache_local, cache_ret, loads>>
    /\ UNCHANGED <<envVars, smpVars, genVars, streamVars, libVars>>

\* _models[tokenizer_key] = tokenizer
GetModelStoreTokenizer(t) ==
    /\ cache_pc[t] = "store_tokenizer"
    /\ models' = [models EXCEPT ![TokenizerKey(cache_name[t])] = cache_local[t]]
    /\ cache_pc' = [cache_pc EXCEPT ![t] = "store_model"]
    /\ UNCHANGED <<cache_name, cache_local, cache_ret, loads>>
    /\ UNCHANGED <<envVars, smpVars, genVars, streamVars, libVars>>

\* _models[cache_key] = model; return tokenizer, model
GetModelStoreModel(t) ==
    /\ cache_pc[t] = "store_model"
    /\ models' = [models EXCEPT ![ModelKey(cache_name[t])] = cache_local[t]]
    /\ cache_ret' = [cache_ret EXCEPT ![t] =
                        Some(<<cache_local[t][1], cache_local[t][1]>>)]
    /\ cache_pc' = [cache_pc EXCEPT ![t] = "returned"]
    /\ UNCHANGED <<cache_name, cache_local, loads>>
    /\ UNCHANGED <<envVars, smpVars, genVars, streamVars, libVars>>

CacheInit ==
    /\ CacheIdle
    /\ StreamIdle
    /\ LibIdle
    /\ EnvIdle
    /\ SmpIdle
    /\ GenIdle

CacheNext ==
    \/ \E t \in Threads, name \in ModelNames : GetModelEnter(t, name)
    \/ \E t \in Threads : GetModelCheck(t)
    \/ \E t \in Threads : GetModelLoad(t)
    \/ \E t \in Threads : GetModelStoreTokenizer(t)
    \/ \E t \in Threads : GetModelStoreModel(t)

SpecCache == CacheInit /\ [][CacheNext]_vars

(***************************************************************************)
(* The streaming generators of the API service,                            *)
(* generate_constrained_stream and generate_unconstrained_stream.  Both    *)
(* are generators: the consumer (the HTTP response) pulls the events, and  *)
(* closing the generator raises GeneratorExit at the yield where it is     *)
(* suspended.  The generation underneath is a source of tokens that ends   *)
(* with a summary or raises.                                               *)
(***************************************************************************)
MaxStreamTokens == 2

Streams == {"constrained", "unconstrained"}

\* gen_id = str(uuid.uuid4())
gen_id == "g1"

StreamTokens == {<<"x">>, <<"y">>}

\* The positions where a stream is suspended: not started, or at a yield.
Suspended == {"created", "y_invalid", "y_outer_error", "y_status", "y_token",
              "y_done", "y_error"}

ErrorEvent(message) == [type |-> "error", message |-> message]

StatusEvent == [type |-> "status", message |-> "starting"]

TokenEvent_StepFromZero(n, text, full) ==
    [type |-> "token", step |-> n - 1, text |-> text, full_text |-> full]

TokenEvent(n, text, full) ==
    [type |-> "token", step |-> n, text |-> text, full_text |-> full]

\* done_data of generate_constrained_stream
DoneConstrained(reason, complete) ==
    [type |-> "done", reason |-> reason, is_complete |-> complete]

\* done_data of generate_unconstrained_stream
DoneUnconstrained(reason, full) ==
    [type |-> "done", reason |-> reason, full_text |-> full]

\* How iter_constrained can answer next(gen): a token, its summary
\* (StopIteration), or an exception.
InnerOutcomes ==
    [kind : {"token"}, text : StreamTokens]
    \cup [kind : {"stop"}, reason : {"max_tokens", "complete", "no_valid"},
          is_complete : BOOLEAN]
    \cup [kind : {"raise"}, exc : {"TypeError", "Exception"}]

\* The initial text of the request; the unconstrained stream has none.  The
\* texts stand for the cases of the recognizer of the request grammar: "i" a
\* prefix with completions, "full" a complete text without completions,
\* "dead" an accepted text that is not complete and has no completion, and
\* "bad" a text feed_raw rejects.
StreamInitials(s) ==
    IF s = "constrained" THEN {<<>>, <<"i">>, <<"full">>, <<"dead">>, <<"bad">>}
    ELSE {<<>>}

\* gen.feed_raw(text) accepts the text
PrefixAccepted(text) == text # <<"bad">>

\* gen.is_complete() after the text
PrefixComplete(text) == text = <<"full">>

\* len(gen.get_completions()) > 0 after the text
PrefixHasCompletions(text) == text \in {<<>>, <<"i">>}

check_partial_completable_OnlyFeeds(text, signal) ==
    IF text # <<>> /\ ~PrefixAccepted(text)
    THEN IF signal = "raise" THEN [kind |-> "raised"]
         ELSE [kind |-> "returned", ok |-> FALSE, reason |-> "invalid_prefix"]
    ELSE [kind |-> "returned", ok |-> TRUE, reason |-> ""]

\* check_partial_completable(spec, text): a rejection by feed_raw shows as
\* the value false or as an exception, which is not caught here.
check_partial_completable(text, signal) ==
    IF text # <<>> /\ ~PrefixAccepted(text)
    THEN IF signal = "raise" THEN [kind |-> "raised"]
         ELSE [kind |-> "returned", ok |-> FALSE, reason |-> "invalid_prefix"]
    ELSE IF text # <<>> /\ ~PrefixComplete(text) /\ ~PrefixHasCompletions(text)
    THEN [kind |-> "returned", ok |-> FALSE, reason |-> "not_completable"]
    ELSE [kind |-> "returned", ok |-> TRUE, reason |-> ""]

\* _validate_initial(spec, initial): the error message, or None
validate_initial(init, signal) ==
    IF init = <<>> THEN [kind |-> "returned", error |-> None]
    ELSE LET c == check_partial_completable(init, signal)
         IN  IF c.kind = "raised" THEN [kind |-> "raised", error |-> None]
             ELSE IF ~c.ok THEN [kind |-> "returned", error |-> Some(c.reason)]
             ELSE [kind |-> "returned", error |-> None]

StreamInit ==
    /\ stream \in Streams
    /\ stream_initial \in StreamInitials(stream)
    /\ stream_pc = "created"
    /\ active_generations = {}
    /\ events = <<>>
    /\ stream_step = 0
    /\ stream_text = <<>>
    /\ finish_reason = ""
    /\ WorkerIdle
    /\ CacheIdle
    /\ LibIdle
    /\ EnvIdle
    /\ SmpIdle
    /\ GenIdle

ResumeAt_NoReturnAfterInvalid(s, at) ==
    IF at = "created" THEN (IF s = "constrained" THEN "validate" ELSE "register")
    ELSE IF at = "y_invalid" THEN "register"
    ELSE IF at = "y_status" THEN (IF s = "constrained" THEN "loop" ELSE "spawn")
    ELSE IF at = "y_token" THEN (IF s = "constrained" THEN "loop" ELSE "poll")
    ELSE IF at \in {"y_done", "y_error"} THEN "finish"
    ELSE "end"

\* Where the code goes on when the consumer pulls the next event.
ResumeAt(s, at) ==
    IF at = "created" THEN (IF s = "constrained" THEN "validate" ELSE "register")
    ELSE IF at = "y_status" THEN (IF s = "constrained" THEN "loop" ELSE "spawn")
    ELSE IF at = "y_token" THEN (IF s = "constrained" THEN "loop" ELSE "poll")
    ELSE IF at \in {"y_done", "y_error"} THEN "finish"
    ELSE "end"

\* next() on the stream.  After the status event the locals are set:
\* constrained_text = initial, generated_text = "", step = 0.
StreamPull ==
    /\ stream_pc \in Suspended
    /\ stream_pc' = ResumeAt(stream, stream_pc)
    /\ stream_text' = (IF stream_pc = "y_status" THEN stream_initial
                       ELSE stream_text)
    /\ UNCHANGED <<stream, stream_initial, active_generations, events,
                   stream_step, finish_reason, workerVars>>
    /\ UNCHANGED <<envVars, smpVars, genVars, cacheVars, libVars>>

\* The consumer closes the generator (client disconnect): GeneratorExit at
\* the yield; "except GeneratorExit: return".
StreamAbandon ==
    /\ stream_pc \in Suspended
    /\ stream_pc' = "closed"
    /\ UNCHANGED <<stream, stream_initial, active_generations, events,
                   stream_step, stream_text, finish_reason, workerVars>>
    /\ UNCHANGED <<envVars, smpVars, genVars, cacheVars, libVars>>

\* error = _validate_initial(spec, initial); an error is yielded and the
\* stream returns.  An exception of the recognizer goes to the outer handler,
\* which yields an error event.
StreamValidate(signal) ==
    /\ stream_pc = "validate"
    /\ LET r == validate_initial(stream_initial, signal)
       IN  IF r.kind = "raised"
           THEN /\ events' = Append(events, ErrorEvent("feed_raised"))
                /\ stream_pc' = "y_outer_error"
           ELSE IF r.error # None
           THEN /\ events' = Append(events, ErrorEvent(r.error[1]))
                /\ stream_pc' = "y_invalid"
           ELSE /\ stream_pc' = "register"
                /\ UNCHANGED events
    /\ UNCHANGED <<stream, stream_initial, active_generations, stream_step,
                   stream_text, finish_reason, workerVars>>
    /\ UNCHANGED <<envVars, smpVars, genVars, cacheVars, libVars>>

\* gen_id = _register_generation(mode, model_name)
StreamRegister ==
    /\ stream_pc = "register"
    /\ active_generations' = active_generations \cup {gen_id}
    /\ stream_pc' = "wrap"
    /\ UNCHANGED <<stream, stream_initial, events, stream_step, stream_text,
                   finish_reason, workerVars>>
    /\ UNCHANGED <<envVars, smpVars, genVars, cacheVars, libVars>>

\* wrapped = get_wrapped_model(...); wrapped.model.eval(); yield status.
\* When the wrapping raises, the outer handler yields an error event.
StreamWrap(ok) ==
    /\ stream_pc = "wrap"
    /\ IF ok
       THEN /\ events' = Append(events, StatusEvent)
            /\ stream_pc' = "y_status"
       ELSE /\ events' = Append(events, ErrorEvent("exception"))
            /\ stream_pc' = "y_outer_error"
    /\ UNCHANGED <<stream, stream_initial, active_generations, stream_step,
                   stream_text, finish_reason, workerVars>>
    /\ UNCHANGED <<envVars, smpVars, genVars, cacheVars, libVars>>

\* One turn of the "while True" of generate_constrained_stream.
ConstrainedNext(o) ==
    /\ stream_pc = "loop"
    /\ stream = "constrained"
    /\ IF o.kind = "token"
       THEN /\ stream_step < MaxStreamTokens
            /\ stream_produced' = Append(stream_produced, o.text)
            /\ stream_text' = stream_text \o o.text
            /\ stream_step' = stream_step + 1
            /\ events' = Append(events,
                                TokenEvent(stream_step', o.text, stream_text'))
            /\ stream_pc' = "y_token"
            /\ UNCHANGED finish_reason
       ELSE IF o.kind = "stop"
       THEN /\ events' = Append(events, DoneConstrained(o.reason, o.is_complete))
            /\ finish_reason' = o.reason
            /\ stream_pc' = "y_done"
            /\ UNCHANGED <<stream_text, stream_step, stream_produced>>
       ELSE /\ events' = Append(events,
                                ErrorEvent(IF o.exc = "TypeError" THEN "type_error"
                                           ELSE "constrained_failed"))
            /\ finish_reason' = (IF o.exc = "TypeError" THEN "type_error"
                                 ELSE "model_error")
            /\ stream_pc' = "y_error"
            /\ UNCHANGED <<stream_text, stream_step, stream_produced>>
    /\ UNCHANGED <<stream, stream_initial, active_generations>>
    /\ UNCHANGED <<worker_pc, worker_steps, token_queue, done_event, result_holder>>
    /\ UNCHANGED <<envVars, smpVars, genVars, cacheVars, libVars>>

\* _finish_generation(gen_id, reason), after the done or error event
StreamFinish ==
    /\ stream_pc = "finish"
    /\ active_generations' = active_generations \ {gen_id}
    /\ stream_pc' = "end"
    /\ UNCHANGED <<stream, stream_initial, events, stream_step, stream_text,
                   finish_reason, workerVars>>
    /\ UNCHANGED <<envVars, smpVars, genVars, cacheVars, libVars>>

(***************************************************************************)
(* generate_unconstrained_stream: a worker thread runs                     *)
(* generate_unconstrained and puts every token on a queue; the stream      *)
(* polls the queue.                                                        *)
(***************************************************************************)
\* thread = threading.Thread(target=run_generation, daemon=True); thread.start()
StreamSpawn ==
    /\ stream_pc = "spawn"
    /\ worker_pc' = "running"
    /\ stream_pc' = "poll"
    /\ UNCHANGED <<stream, stream_initial, active_generations, events,
                   stream_step, stream_text, finish_reason>>
    /\ UNCHANGED <<worker_steps, token_queue, done_event, result_holder,
                   stream_produced>>
    /\ UNCHANGED <<envVars, smpVars, genVars, cacheVars, libVars>>

\* token_queue.empty()
QueueEmpty_OnceDone(q) == TRUE

QueueEmpty(q) == q = <<>>

\* "while not done_event.is_set() or not token_queue.empty()": the event is
\* read first, and the queue only when the event is set.
StreamPollDone ==
    /\ stream_pc = "poll"
    /\ stream_pc' = (IF ~done_event THEN "get" ELSE "poll_empty")
    /\ UNCHANGED <<stream, stream_initial, active_generations, events,
                   stream_step, stream_text, finish_reason, workerVars>>
    /\ UNCHANGED <<envVars, smpVars, genVars, cacheVars, libVars>>

StreamPollEmpty ==
    /\ stream_pc = "poll_empty"
    /\ stream_pc' = (IF ~QueueEmpty(token_queue) THEN "get" ELSE "after_loop")
    /\ UNCHANGED <<stream, stream_initial, active_generations, events,
                   stream_step, stream_text, finish_reason, workerVars>>
    /\ UNCHANGED <<envVars, smpVars, genVars, cacheVars, libVars>>

\* token = token_queue.get(timeout=0.1): a token is taken and yielded as a
\* token event, or the wait times out (queue.Empty) and the loop goes on.
StreamGet ==
    /\ stream_pc = "get"
    /\ IF token_queue # <<>>
       THEN /\ token_queue' = Tail(token_queue)
            /\ stream_text' = stream_text \o Head(token_queue)
            /\ stream_step' = stream_step + 1
            /\ events' = Append(events, TokenEvent(stream_step', Head(token_queue),
                                                   stream_text'))
            /\ stream_pc' = "y_token"
       ELSE /\ stream_pc' = "poll"
            /\ UNCHANGED <<token_queue, stream_text, stream_step, events>>
    /\ UNCHANGED <<stream, stream_initial, active_generations, finish_reason>>
    /\ UNCHANGED <<worker_pc, worker_steps, done_event, result_holder,
                   stream_produced>>
    /\ UNCHANGED <<envVars, smpVars, genVars, cacheVars, libVars>>

\* After the loop: the error event or the done event.
StreamAfterLoop ==
    /\ stream_pc = "after_loop"
    /\ IF result_holder.kind = "error"
       THEN /\ events' = Append(events, ErrorEvent("unconstrained_failed"))
            /\ finish_reason' = "model_error"
            /\ stream_pc' = "y_error"
       ELSE /\ events' = Append(events,
                                DoneUnconstrained(result_holder.reason, stream_text))
            /\ finish_reason' = result_holder.reason
            /\ stream_pc' = "y_done"
    /\ UNCHANGED <<stream, stream_initial, active_generations, stream_step,
                   stream_text, workerVars>>
    /\ UNCHANGED <<envVars, smpVars, genVars, cacheVars, libVars>>

\* The worker: one step of generate_unconstrained (a call of the model and
\* on_token, which puts the token on the queue).
WorkerStep(token) ==
    /\ worker_pc = "running"
    /\ worker_steps < MaxStreamTokens
    /\ worker_steps' = worker_steps + 1
    /\ stream_produced' = Append(stream_produced, token)
    /\ token_queue' = Append(token_queue, token)
    /\ UNCHANGED <<worker_pc, done_event, result_holder>>
    /\ UNCHANGED <<stream, stream_initial, stream_pc, active_generations, events,
                   stream_step, stream_text, finish_reason>>
    /\ UNCHANGED <<envVars, smpVars, genVars, cacheVars, libVars>>

\* generate_unconstrained returns: result_holder["result"] = ...
WorkerReturn(reason) ==
    /\ worker_pc = "running"
    /\ reason = "max_tokens" => worker_steps = MaxStreamTokens
    /\ result_holder' = [kind |-> "result", reason |-> reason]
    /\ worker_pc' = "finally"
    /\ UNCHANGED <<worker_steps, token_queue, done_event, stream_produced>>
    /\ UNCHANGED <<stream, stream_initial, stream_pc, active_generations, events,
                   stream_step, stream_text, finish_reason>>
    /\ UNCHANGED <<envVars, smpVars, genVars, cacheVars, libVars>>

\* generate_unconstrained raises: result_holder["error"] = e
WorkerRaise ==
    /\ worker_pc = "running"
    /\ result_holder' = [kind |-> "error", reason |-> "exception"]
    /\ worker_pc' = "finally"
    /\ UNCHANGED <<worker_steps, token_queue, done_event, stream_produced>>
    /\ UNCHANGED <<stream, stream_initial, stream_pc, active_generations, events,
                   stream_step, stream_text, finish_reason>>
    /\ UNCHANGED <<envVars, smpVars, genVars, cacheVars, libVars>>

\* finally: done_event.set()
WorkerSetDone ==
    /\ worker_pc = "finally"
    /\ done_event' = TRUE
    /\ worker_pc' = "done"
    /\ UNCHANGED <<worker_steps, token_queue, result_holder, stream_produced>>
    /\ UNCHANGED <<stream, stream_initial, stream_pc, active_generations, events,
                   stream_step, stream_text, finish_reason>>
    /\ UNCHANGED <<envVars, smpVars, genVars, cacheVars, libVars>>

StreamNext ==
    \/ StreamPull
    \/ StreamAbandon
    \/ \E signal \in RejectSignals : StreamValidate(signal)
    \/ StreamRegister
    \/ \E ok \in BOOLEAN : StreamWrap(ok)
    \/ \E o \in InnerOutcomes : ConstrainedNext(o)
    \/ StreamFinish
    \/ StreamSpawn
    \/ StreamPollDone
    \/ StreamPollEmpty
    \/ StreamGet
    \/ StreamAfterLoop
    \/ \E token \in StreamTokens : WorkerStep(token)
    \/ \E reason \in {"stop_token", "max_tokens"} : WorkerReturn(reason)
    \/ WorkerRaise
    \/ WorkerSetDone

SpecStream == StreamInit /\ [][StreamNext]_vars

(***************************************************************************)
(* The grammar registry: list_grammars, get_grammar, get_grammar_info.     *)
(***************************************************************************)
MaxCalls == 2

\* The names a caller asks for: the keys, and names that are no key.
RegistryNames == Range(GrammarKeys) \cup {"", "STLC"}

Returned(value) == [kind |-> "returned", value |-> value]

Raised(exc) == [kind |-> "raised", exc |-> exc]

\* list(GRAMMARS.keys())
list_grammars(g) ==
    LET is_key(k) == k \in DOMAIN g IN SelectSeq(GrammarKeys, is_key)

get_grammar_ReturnsEmpty(g, name) ==
    IF name \notin DOMAIN g THEN Returned(<<>>) ELSE Returned(g[name].spec)

get_grammar(g, name) ==
    IF name \notin DOMAIN g THEN Raised("ValueError") ELSE Returned(g[name].spec)

get_grammar_info(g, grammar_name) ==
    IF grammar_name \in DOMAIN g
    THEN Returned(g[grammar_name])
    ELSE Returned([spec |-> <<>>, name |-> grammar_name,
                   syntax_hints |-> <<>>, examples |-> <<>>])

RegistryInit ==
    /\ grammars = GRAMMARS
    /\ registry_calls = <<>>
    /\ mask_logits = <<>>
    /\ mask_text = <<>>
    /\ masked = None
    /\ compared = None
    /\ CacheIdle
    /\ StreamIdle
    /\ EnvIdle
    /\ SmpIdle
    /\ GenIdle

RegistryCall(op, name, outcome) ==
    /\ Len(registry_calls) < MaxCalls
    /\ registry_calls' = Append(registry_calls,
                                [op |-> op, name |-> name, outcome |-> outcome])
    /\ UNCHANGED <<grammars, mask_logits, mask_text, masked, compared>>
    /\ UNCHANGED <<envVars, smpVars, genVars, cacheVars, streamVars>>

ListGrammars == RegistryCall("list_grammars", "", Returned(list_grammars(grammars)))

GetGrammar(name) == RegistryCall("get_grammar", name, get_grammar(grammars, name))

GetGrammarInfo(name) ==
    RegistryCall("get_grammar_info", name, get_grammar_info(grammars, name))

RegistryNext ==
    \/ ListGrammars
    \/ \E name \in RegistryNames : GetGrammar(name)
    \/ \E name \in RegistryNames : GetGrammarInfo(name)

SpecRegistry == RegistryInit /\ [][RegistryNext]_vars

(***************************************************************************)
(* mask_repeated_whitespace (src/api/services/models.py), the logit filter *)
(* that generate_constrained_stream hands to iter_constrained: logit_fn    *)
(* applies it to the model's logits before the sampler masks them.         *)
(***************************************************************************)
\* -1e9, below every logit of a model (0..MaxLogit here)
WhitespacePenalty == -1

\* str.isspace() of one character
IsSpace(c) == c \in {" ", "NL"}

\* token.strip() == ""
StripsToEmpty(token) == \A i \in 1..Len(token) : IsSpace(token[i])

\* A vocabulary with the empty token, a whitespace token, tokens that begin
\* with whitespace and tokens that do not.
mask_vocab == << <<>>, <<" ">>, <<"NL", "a">>, <<"a">>, <<"a", " ">> >>

MaskTexts == {<<>>, <<"a">>, <<" ">>, <<"a", "NL">>, <<" ", "a">>}

MaskLogitVectors == [1..Len(mask_vocab) -> 0..MaxLogit]

\* ends_with_ws = bool(current_text) and current_text[-1].isspace()
ends_with_ws(text) == text # <<>> /\ IsSpace(Last(text))

\* The tokens whose logit the loop replaces.
Blocked_EmptyToo(token, ends) ==
    ends /\ (StripsToEmpty(token) \/ IsSpace(token[1]))

Blocked(token, ends) ==
    token # <<>> /\ ends /\ (StripsToEmpty(token) \/ IsSpace(token[1]))

\* masked = list(logits) is a copy: the result is a new list and the
\* argument stays as it was.
mask_repeated_whitespace(lg, voc, text) ==
    [i \in 1..Len(lg) |->
        IF i <= Len(voc) /\ Blocked(voc[i], ends_with_ws(text))
        THEN WhitespacePenalty ELSE lg[i]]

MaskInit ==
    /\ grammars = <<>>
    /\ registry_calls = <<>>
    /\ mask_logits \in MaskLogitVectors
    /\ mask_text \in MaskTexts
    /\ masked = None
    /\ compared = None
    /\ CacheIdle
    /\ StreamIdle
    /\ EnvIdle
    /\ SmpIdle
    /\ GenIdle

\* A call: masked records the list passed and the list returned.
Mask ==
    /\ masked' = Some([input |-> mask_logits,
                       value |-> mask_repeated_whitespace(mask_logits, mask_vocab,
                                                          mask_text)])
    /\ UNCHANGED <<grammars, registry_calls, mask_logits, mask_text, compared>>
    /\ UNCHANGED <<envVars, smpVars, genVars, cacheVars, streamVars>>

MaskNext == Mask

SpecMask == MaskInit /\ [][MaskNext]_vars

(***************************************************************************)
(* Claims about ReasoningEnvironment.generate (under SpecEnv).             *)
(***************************************************************************)
IsCompleteGrammar(b) == b.kind = GRAMMAR /\ b.is_complete

\* generate returned although its constrained generator raised: the call
\* that raised left no block.
GrammarRaised == pc = "done" /\ Len(calls) > Len(blocks)

\* C1: the stop reason of a returned result records the exit path: complete
\* when a Grammar block finished complete, error when the constrained
\* generator raised, and max_blocks only when max_blocks blocks were
\* generated and none of them is a complete Grammar block.
C1_StopReasonRecordsExitPath ==
    pc = "done" =>
        /\ stopped_reason \in {"complete", "error", "max_blocks"}
        /\ (\E i \in 1..Len(blocks) : IsCompleteGrammar(blocks[i]))
               => stopped_reason = "complete"
        /\ GrammarRaised => stopped_reason = "error"
        /\ stopped_reason = "max_blocks" =>
               /\ Len(blocks) = max_blocks
               /\ \A i \in 1..Len(blocks) : ~IsCompleteGrammar(blocks[i])

\* C2: a complete Grammar block is terminal (the last block, reason complete,
\* no generator call after it); a Grammar block that is not complete is
\* followed by a Think block whenever the block budget allows.
C2_CompleteIsTerminal ==
    /\ \A i \in 1..Len(blocks) :
           IsCompleteGrammar(blocks[i]) =>
               /\ i = Len(blocks)
               /\ Len(calls) = i
               /\ pc = "done"
               /\ stopped_reason = "complete"
    /\ \A i \in 1..Len(blocks) :
           (blocks[i].kind = GRAMMAR /\ ~blocks[i].is_complete) =>
               /\ i < Len(blocks) => blocks[i + 1].kind = THINK
               /\ (pc = "done" /\ i < max_blocks) => i < Len(blocks)

C2_Witness ==
    /\ pc = "done"
    /\ Len(blocks) = 3
    /\ blocks[1].kind = GRAMMAR /\ ~blocks[1].is_complete
    /\ blocks[2].kind = THINK
    /\ IsCompleteGrammar(blocks[3])

\* C3: at most max_blocks generator calls are made and at most max_blocks
\* blocks are returned, for every max_blocks >= 0.
C3_BoundedByMaxBlocks ==
    /\ Len(calls) <= max_blocks
    /\ Len(blocks) <= max_blocks
    /\ block_idx <= max_blocks

C3_Witness ==
    /\ pc = "done"
    /\ max_blocks >= 2
    /\ Len(calls) = max_blocks
    /\ Len(blocks) = max_blocks

\* The tags put between the content of Think block i and the prompt of the
\* Grammar call that follows it.
TagsAfterThink(i) ==
    Suffix(calls[i + 1].prompt, Len(calls[i].prompt) + Len(blocks[i].content))

\* C4: between a Think block and the Grammar block that follows it the
\* prompt grows by the think content, the think closing tag and exactly one
\* grammar opening tag.
C4_OneCloseOneOpen ==
    \A i \in 1..(Len(calls) - 1) :
        calls[i].mode = THINK =>
            /\ IsPrefixOf(calls[i].prompt \o blocks[i].content, calls[i + 1].prompt)
            /\ Count(TagsAfterThink(i), THINK_CLOSE) = 1
            /\ Count(TagsAfterThink(i), grammar_open) = 1

\* C5: every prompt handed to a generator ends with the opening tag of the
\* mode generated, and the first call is in the start mode of the caller.
C5_PromptEndsWithOpeningTag ==
    /\ \A i \in 1..Len(calls) :
           /\ Len(calls[i].prompt) > 0
           /\ Last(calls[i].prompt) = ModeTag(calls[i].mode)
    /\ Len(calls) >= 1 =>
           calls[1].mode = (IF start_thinking THEN THINK ELSE GRAMMAR)

C5_Witness ==
    /\ Len(calls) >= 3
    /\ ~start_thinking
    /\ calls[2].mode = THINK
    /\ calls[3].mode = GRAMMAR

(***************************************************************************)
(* Claims about TypedSampler (under SpecSampler).                          *)
(***************************************************************************)
VocabIndices == 1..Len(vocab)

\* The vocabulary indices whose token the recognizer would accept now.
Acceptable == {i \in VocabIndices : Accepts(buffer, vocab[i])}

\* S holds n highest-logit indices (all of them when n is the vocabulary's
\* size or more).
IsTopSet(S, l, n) ==
    /\ Cardinality(S) = (IF n < Len(l) THEN n ELSE Len(l))
    /\ \A i \in S, j \in (1..Len(l)) \ S : l[i] >= l[j]

\* j comes before i in the order best logit first, equal logits in the
\* order of the vocabulary.
Before(j, i, l) == l[j] > l[i] \/ (l[j] = l[i] /\ j < i)

\* C6: infer returns a vector as long as the logits; the indices the token
\* filter kept have their logit and every other index is -inf; the filter
\* sees the pre_top_k highest-logit indices when pre_top_k is set and smaller
\* than the vocabulary, and the whole vocabulary otherwise.
C6_MaskedLogits ==
    ret.op = "infer" =>
        /\ Len(ret.value) = Len(logits)
        /\ \E S \in SUBSET VocabIndices :
               /\ IsTopSet(S, logits,
                           IF pre_top_k # None /\ pre_top_k[1] < Len(vocab)
                           THEN pre_top_k[1] ELSE Len(vocab))
               /\ \A i \in VocabIndices :
                      ret.value[i] = (IF i \in S \cap Acceptable
                                      THEN logits[i] ELSE NegInf)

C6_Witness ==
    /\ ret.op = "infer"
    /\ pre_top_k = Some(2)
    /\ \E i \in Acceptable : ret.value[i] = logits[i]
    /\ \E i \in Acceptable : ret.value[i] = NegInf /\ logits[i] # NegInf
    /\ \E i \in VocabIndices \ Acceptable : ret.value[i] = NegInf

\* C7: infer_greedy returns null only when no token of the vocabulary is
\* acceptable to the recognizer, for every pre_top_k.
C7_NullOnlyWhenNoValidToken ==
    (ret.op = "infer_greedy" /\ ret.value = GreedyNone) => Acceptable = {}

\* C8: a token that infer_greedy returns is one the filter accepted; with
\* k = 1 it is the first acceptable token in the order best logit first, and
\* with k > 1 it is among the first k of them.
C8_GreedyPicksTopValid ==
    (ret.op = "infer_greedy" /\ ret.value.kind = "token") =>
        LET i == ret.value.index
            better == {j \in Acceptable : Before(j, i, logits)}
        IN  /\ i \in Acceptable
            /\ greedy_k = 1 => better = {}
            /\ greedy_k > 1 => Cardinality(better) < greedy_k

C8_Witness ==
    /\ ret.op = "infer_greedy"
    /\ ret.value.kind = "token"
    /\ greedy_k = 2
    /\ pre_top_k = Some(3)
    /\ \E j \in Acceptable : Before(j, ret.value.index, logits)
    /\ \E j \in VocabIndices \ Acceptable : Before(j, ret.value.index, logits)

\* C9: feed never returns normally when the recognizer rejected the text.
C9_FeedRaisesOnRejection ==
    (ret.op = "feed" /\ ~ret.accepted) => ret.outcome = "raised"

(***************************************************************************)
(* Claims about the constrained generation loop (under SpecGen).           *)
(***************************************************************************)
\* The tokens a constrained loop took so far, in order: a generator yields
\* them and an inference loop hands them to on_token.
Produced ==
    IF entry \in InferenceLoops
    THEN [k \in 1..Len(callbacks) |-> callbacks[k][1]]
    ELSE yielded

\* A constrained loop ran its code before the "for" and the initial text
\* was accepted (an empty one is not fed).
InitialAccepted ==
    /\ entry \in ConstrainedGenerators \cup InferenceLoops
    /\ gen_pc \notin {"idle", "created", "start"}
    /\ entry \in ConstrainedGenerators => pulls > 0
    /\ Accepts(<<>>, gen_initial)

Started ==
    /\ gen_pc \notin {"idle", "created", "start"}
    /\ entry \in InferenceLoops \/ pulls > 0

StopReasons == {"max_tokens", "complete", "no_valid", "type_error"}

\* C11: a constrained loop never raises because of a sampler outcome: a null
\* next token ends it with no_valid, a feed that raises ends it with
\* type_error, a rejected initial text gives the summary (initial, not
\* complete, no token) without a call of the logit function, and the stop
\* reason returned is max_tokens, complete, no_valid or type_error.
C11_SamplerOutcomesEndTheLoop ==
    entry \in ConstrainedGenerators \cup InferenceLoops =>
        /\ gen_pc = "raised" => ret.op = "logit_fn"
        /\ (ret.op = "infer_greedy" /\ ret.value = GreedyNone) =>
               gen_pc = "done" /\ result.stopped_reason = "no_valid"
        /\ (ret.op = "feed" /\ ret.outcome = "raised") =>
               gen_pc = "done" /\ result.stopped_reason = "type_error"
        /\ (Started /\ ~Accepts(<<>>, gen_initial)) =>
               /\ gen_pc = "done"
               /\ result = GenerationResult(gen_initial, FALSE, 0, "type_error")
               /\ logit_calls = 0
        /\ gen_pc = "done" => result.stopped_reason \in StopReasons

TextSoFar ==
    IF entry \in UnconstrainedGenerators THEN decode(generated_token_ids)
    ELSE buffer

StartText ==
    IF entry \notin UnconstrainedGenerators /\ Accepts(<<>>, gen_initial)
    THEN gen_initial ELSE <<>>

CallbackTokens == [k \in 1..Len(callbacks) |-> callbacks[k][1]]

\* C13: on_token sees the tokens in the order they were accepted: the k-th
\* call (k from 0) gets index k and the k-th token added to the text, and a
\* token is reported only when the text already holds it.
C13_CallbacksInAcceptanceOrder ==
    entry \in Wrappers \cup InferenceLoops =>
        /\ \A k \in 1..Len(callbacks) :
               /\ callbacks[k][2] = k - 1
               /\ entry \in Wrappers => callbacks[k][1] = yielded[k]
        /\ Started => IsPrefixOf(StartText \o Flatten(CallbackTokens), TextSoFar)
        /\ Len(callbacks) <= tokens_generated
        /\ gen_pc = "done" =>
               /\ Len(callbacks) = tokens_generated
               /\ StartText \o Flatten(CallbackTokens) = TextSoFar

C13_Witness ==
    /\ gen_pc = "done"
    /\ entry = "generate"
    /\ Len(callbacks) = 2
    /\ callbacks[1][1] # callbacks[2][1]

\* C14: the summary iter_constrained returns counts the tokens it yielded,
\* never more than max_tokens, and its stop reason is max_tokens only when
\* exactly max_tokens tokens were yielded.
C14_SummaryCountsYieldedTokens ==
    entry \in ConstrainedGenerators =>
        /\ Len(yielded) <= max_tokens
        /\ gen_pc = "done" =>
               /\ result.tokens_generated = Len(yielded)
               /\ result.tokens_generated <= max_tokens
               /\ result.stopped_reason = "max_tokens" => Len(yielded) = max_tokens

C14_Witness ==
    /\ gen_pc = "done"
    /\ entry = "iter_constrained"
    /\ max_tokens = 2
    /\ Len(yielded) = 2
    /\ result.stopped_reason = "complete"

\* C15: the token iterators are driven by the caller: the logit function is
\* called at most once per pull, nothing has run before the first pull, and
\* a generator that is suspended or closed has made exactly one call per
\* pull, so none is made once the caller stops pulling.
C15_LazyGenerators ==
    entry \in ConstrainedGenerators \cup UnconstrainedGenerators =>
        /\ logit_calls <= pulls
        /\ pulls = 0 =>
               /\ buffer = <<>>
               /\ ret = NoRet
               /\ generated_token_ids = <<>>
               /\ yielded = <<>>
        /\ gen_pc \in {"yielded", "handled", "closed"} => logit_calls = pulls

C15_Witness ==
    /\ gen_pc = "closed"
    /\ entry = "iter_constrained"
    /\ pulls = 2
    /\ logit_calls = 2

\* C16: when a constrained generation whose initial text was accepted ends,
\* the summary text is the initial text and the yielded tokens in order, and
\* it is the text a consumer of the iterator accumulated (the full_text of
\* the last token event).
C16_SummaryTextIsInitialPlusTokens ==
    (InitialAccepted /\ entry \in ConstrainedGenerators /\ gen_pc = "done") =>
        /\ result.text = gen_initial \o Flatten(yielded)
        /\ entry = "iter_constrained" => full_text = result.text

C16_Witness ==
    /\ InitialAccepted
    /\ gen_pc = "done"
    /\ entry = "iter_constrained"
    /\ gen_initial = <<"a">>
    /\ Len(yielded) = 2
    /\ full_text = <<"a", "b", "c">>

\* The text after the first k tokens of the loop.
TextAfter(k) == StartText \o Flatten(SubSeq(Produced, 1, k))

C18_LoadedAtMostOnce ==
    /\ \A name \in ModelNames : loads[name] <= 1
    /\ \A t, u \in Threads :
           (/\ cache_pc[t] = "returned"
            /\ cache_pc[u] = "returned"
            /\ cache_name[t] = cache_name[u]) => cache_ret[t] = cache_ret[u]

(***************************************************************************)
(* Claims about the streaming generators (under SpecStream).               *)
(***************************************************************************)
\* The stream is over: it returned, or the consumer closed it.
StreamOver == stream_pc \in {"end", "closed"}

\* C19: a generation that a streaming generator registered is removed from
\* the registry of active generations on every exit path of the stream: when
\* the stream is over (done, error, a failure while wrapping the model,
\* abandonment by the consumer) the registry does not hold it.
C19_RegistryReleasedOnEveryExit ==
    StreamOver => gen_id \notin active_generations

\* C20: once the consumer of generate_unconstrained_stream has abandoned the
\* stream, the worker thread makes no further model step and no further
\* token callback.
C20_NoWorkAfterAbandon ==
    [][stream_pc = "closed" =>
           (worker_steps' = worker_steps /\ token_queue' = token_queue)]_vars

\* The token events yielded so far, in order.
TokenEvents ==
    LET is_token(e) == e.type = "token" IN SelectSeq(events, is_token)

\* The text a stream starts from.
StreamStartText == IF stream = "constrained" THEN stream_initial ELSE <<>>

\* C21: in both streaming generators the k-th token event carries step = k,
\* text = the k-th token the generation produced, and full_text = the starting
\* text (the initial text of the constrained stream, the empty string of the
\* unconstrained one) followed by the first k tokens in order.
C21_TokenEventFields ==
    /\ Len(TokenEvents) <= Len(stream_produced)
    /\ \A k \in 1..Len(TokenEvents) :
           /\ TokenEvents[k].step = k
           /\ TokenEvents[k].text = stream_produced[k]
           /\ TokenEvents[k].full_text =
                  StreamStartText \o Flatten(SubSeq(stream_produced, 1, k))

C21_Witness ==
    /\ stream = "constrained"
    /\ stream_initial = <<"i">>
    /\ Len(TokenEvents) = 2
    /\ TokenEvents[2].full_text = <<"i", "x", "y">>

\* C22: every done event of a streaming generator carries the stop reason and
\* the is_complete flag of the generation summary, and every error event
\* carries a message.
C22_DoneAndErrorFields ==
    \A i \in 1..Len(events) :
        /\ events[i].type = "done" =>
               {"reason", "is_complete"} \subseteq DOMAIN events[i]
        /\ events[i].type = "error" => "message" \in DOMAIN events[i]

(***************************************************************************)
(* More claims about TypedSampler (under SpecSampler).                     *)
(***************************************************************************)
\* The index of a token string in the vocabulary.
IndexOf(token) == CHOOSE i \in VocabIndices : vocab[i] = token

Min(a, b) == IF a < b THEN a ELSE b

\* C23: infer_text(k, pre_top_k) returns at most k token strings, each one
\* accepted by the token filter, in non-increasing order of logit, and they
\* are the k highest-logit valid candidates (all of them when fewer than k
\* are valid); the candidates are the pre_top_k highest-logit tokens when
\* pre_top_k is given and the whole vocabulary otherwise.
C23_InferTextTopK ==
    ret.op = "infer_text" =>
        LET r == ret.value
            R == {IndexOf(r[j]) : j \in 1..Len(r)}
        IN  /\ Len(r) <= greedy_k
            /\ \A j \in 1..Len(r) : Accepts(buffer, r[j])
            /\ \A j \in 1..(Len(r) - 1) :
                   logits[IndexOf(r[j])] >= logits[IndexOf(r[j + 1])]
            /\ Cardinality(R) = Len(r)
            /\ \E S \in SUBSET VocabIndices :
                   /\ IsTopSet(S, logits, IF pre_top_k # None THEN pre_top_k[1]
                                          ELSE Len(vocab))
                   /\ R \subseteq S \cap Acceptable
                   /\ Len(r) = Min(greedy_k, Cardinality(S \cap Acceptable))
                   /\ \A i \in R, j \in (S \cap Acceptable) \ R :
                          logits[i] >= logits[j]

C23_Witness ==
    /\ ret.op = "infer_text"
    /\ pre_top_k = Some(3)
    /\ greedy_k = 2
    /\ Len(ret.value) = 2
    /\ logits[IndexOf(ret.value[1])] > logits[IndexOf(ret.value[2])]
    /\ \E j \in Acceptable : \A n \in 1..2 : ret.value[n] # vocab[j]
    /\ \E j \in VocabIndices \ Acceptable :
           logits[j] > logits[IndexOf(ret.value[2])]

InferOps == {"infer", "infer_text", "infer_greedy", "infer_unconstrained"}

\* C24: only feed and reset change the recognizer of a TypedSampler: infer,
\* infer_text, infer_greedy and infer_unconstrained leave current_text and
\* is_complete as they were, and each of them calls the logit function exactly
\* once.
C24_InferenceLeavesRecognizer ==
    [][ret'.op \in InferOps =>
          /\ buffer' = buffer
          /\ generator_is_complete(buffer') = generator_is_complete(buffer)
          /\ ret'.logit_calls = 1]_vars

C24_Witness ==
    /\ ret.op = "infer_unconstrained"
    /\ ret.value.kind = "token"
    /\ buffer = <<"a", "b">>
    /\ ~Accepts(buffer, vocab[ret.value.index])

(***************************************************************************)
(* Claims about the grammar registry (under SpecRegistry).                 *)
(***************************************************************************)
\* C25: the registry is a fixed set: get_grammar(name) returns the spec for
\* every name of list_grammars() and fails with a ValueError, the registry
\* unchanged, for every other name; get_grammar_info never fails and returns
\* for an unknown name a fallback record with an empty spec, no syntax hints
\* and no examples.
C25_FixedRegistry ==
    /\ grammars = GRAMMARS
    /\ \A i \in 1..Len(registry_calls) :
           LET c == registry_calls[i]
               listed == c.name \in Range(list_grammars(grammars))
           IN  /\ c.op = "list_grammars" => c.outcome = Returned(GrammarKeys)
               /\ c.op = "get_grammar" =>
                      IF listed
                      THEN c.outcome = Returned(load_spec(c.name))
                      ELSE c.outcome = Raised("ValueError")
               /\ c.op = "get_grammar_info" =>
                      /\ c.outcome.kind = "returned"
                      /\ listed => c.outcome.value.spec = load_spec(c.name)
                      /\ ~listed =>
                             /\ c.outcome.value.spec = <<>>
                             /\ c.outcome.value.syntax_hints = <<>>
                             /\ c.outcome.value.examples = <<>>

C25_Witness ==
    /\ Len(registry_calls) = 2
    /\ registry_calls[1].op = "get_grammar"
    /\ registry_calls[1].name = "STLC"
    /\ registry_calls[1].outcome.kind = "raised"
    /\ registry_calls[2].op = "get_grammar_info"
    /\ registry_calls[2].name = "STLC"
    /\ registry_calls[2].outcome.value.examples = <<>>

(***************************************************************************)
(* Claims about the whitespace filter (under SpecMask).                    *)
(***************************************************************************)
\* C26: mask_repeated_whitespace returns the logits unchanged when the
\* current text is empty or does not end in whitespace; when the text ends in
\* whitespace it lowers to -1e9 exactly the non-empty tokens that begin with
\* whitespace and keeps every other logit; it never modifies its input list.
C26_WhitespaceFilter ==
    masked # None =>
        LET out == masked[1].value
            ends == mask_text # <<>> /\ Last(mask_text) \in {" ", "NL"}
        IN  /\ masked[1].input = mask_logits
            /\ Len(out) = Len(mask_logits)
            /\ ~ends => out = mask_logits
            /\ ends =>
                   \A i \in 1..Len(out) :
                       IF mask_vocab[i] # <<>> /\ mask_vocab[i][1] \in {" ", "NL"}
                       THEN out[i] = WhitespacePenalty /\ out[i] < mask_logits[i]
                       ELSE out[i] = mask_logits[i]

C26_Witness ==
    /\ masked # None
    /\ mask_text = <<"a", "NL">>
    /\ masked[1].value = <<2, WhitespacePenalty, WhitespacePenalty, 1, 2>>
    /\ mask_logits = <<2, 0, 1, 1, 2>>

(***************************************************************************)
(* More claims about ReasoningEnvironment.generate (under SpecEnv).        *)
(***************************************************************************)
\* The last step of the loop was a Think step.
AfterThink == blocks # <<>> /\ Last(blocks).kind = THINK /\ current_mode = GRAMMAR

\* The tags appended when no transition was seen.
NoClearTransition == <<THINK_CLOSE, "NL", grammar_open, "NL", grammar_open>>

\* C27: _generate_think reports as stop_tag the tag at which the
\* unconstrained generation stopped: when the model emitted the think closing
\* tag or the grammar opening tag as a stop token, generate sees that tag as
\* the transition and does not take the no-clear-transition path.
C27_StopTagIsTheStopToken ==
    (AfterThink /\ think_stop_token \in {Some(THINK_CLOSE), Some(grammar_open)}) =>
        /\ think_stop_tag = think_stop_token[1]
        /\ ~EndsWith(accumulated, NoClearTransition)

StartMode == IF start_thinking THEN THINK ELSE GRAMMAR

\* C28: the blocks strictly alternate between Think and Grammar, starting
\* with the start mode: after a Think block, whatever its stop tag, the next
\* step is a Grammar step, and no two consecutive blocks have the same kind.
C28_BlocksAlternate ==
    /\ blocks # <<>> => blocks[1].kind = StartMode
    /\ \A i \in 1..(Len(blocks) - 1) : blocks[i].kind # blocks[i + 1].kind
    /\ \A i \in 1..(Len(calls) - 1) :
           calls[i].mode = THINK => calls[i + 1].mode = GRAMMAR
    /\ (pc = "loop" /\ blocks # <<>> /\ Last(blocks).kind = THINK) =>
           current_mode = GRAMMAR

C28_Witness ==
    /\ pc = "done"
    /\ Len(blocks) = 3
    /\ blocks[1].kind = THINK
    /\ blocks[2].kind = GRAMMAR
    /\ blocks[3].kind = THINK
    /\ blocks[1].content = <<"t">>
    /\ blocks[3].content = <<>>

TransitionTags == {THINK_CLOSE, grammar_open, grammar_close}

\* C29: the content of a ThinkBlock is the generated text cut at the earliest
\* occurrence of any transition tag, so no ThinkBlock content contains the
\* think closing tag, the grammar opening tag or the grammar closing tag.
C29_ThinkContentHasNoTag ==
    \A i \in 1..Len(blocks) :
        blocks[i].kind = THINK =>
            \A tag \in TransitionTags : ~Contains(blocks[i].content, tag)

IsTerminal(e) == e.type \in {"done", "error"}

\* C30: every token that the worker of generate_unconstrained_stream passes
\* to on_token is emitted as a token event exactly once, in production order,
\* and before the terminal done or error event, under every interleaving of
\* the worker and the consumer loop: no token is lost when the worker
\* finishes.
C30_NoTokenLost ==
    stream = "unconstrained" =>
        /\ Len(TokenEvents) <= Len(stream_produced)
        /\ \A k \in 1..Len(TokenEvents) : TokenEvents[k].text = stream_produced[k]
        /\ \A i \in 1..Len(events) :
               IsTerminal(events[i]) =>
                   /\ i = Len(events)
                   /\ Len(TokenEvents) = Len(stream_produced)

C30_Witness ==
    /\ stream = "unconstrained"
    /\ Len(TokenEvents) = 2
    /\ events # <<>>
    /\ Last(events).type = "done"
    /\ stream_produced = << <<"x">>, <<"y">> >>

(***************************************************************************)
(* Further claims about ReasoningEnvironment.generate (under SpecEnv).     *)
(***************************************************************************)
\* EnvironmentResult.grammar_blocks: the Grammar blocks of a result, in order.
grammar_blocks(bs) == SelectSeq(bs, LAMBDA b : b.kind = GRAMMAR)

\* EnvironmentResult.is_complete: there is a last Grammar block and it is
\* complete.
is_complete_result(bs) ==
    LET gs == grammar_blocks(bs)
    IN  gs # <<>> /\ Last(gs).is_complete

\* C31: for a returned result, stopped_reason is complete if and only if the
\* result's is_complete property is true, that is, its last Grammar block is
\* complete.
C31_CompleteIffIsComplete ==
    pc = "done" => (stopped_reason = "complete" <=> is_complete_result(blocks))

C31_Witness ==
    /\ pc = "done"
    /\ stopped_reason = "complete"
    /\ is_complete_result(blocks)
    /\ Len(grammar_blocks(blocks)) = 2
    /\ ~grammar_blocks(blocks)[1].is_complete

\* The Grammar calls made before call i.
GrammarCallsBefore(i) == {j \in 1..(i - 1) : calls[j].mode = GRAMMAR}

\* C32: the caller's initial text is passed to the constrained generator
\* only by the first Grammar call of a run; every later Grammar call of the
\* run gets the empty initial text.
C32_InitialOnlyOnFirstGrammarBlock ==
    \A i \in 1..Len(calls) :
        calls[i].mode = GRAMMAR =>
            calls[i].initial = (IF GrammarCallsBefore(i) = {} THEN initial ELSE <<>>)

C32_Witness ==
    /\ initial # <<>>
    /\ Len(calls) >= 3
    /\ calls[1].mode = GRAMMAR /\ calls[1].initial = initial
    /\ calls[3].mode = GRAMMAR /\ calls[3].initial = <<>>

\* C33: on_mode_switch is called exactly once per block step, before the
\* generator of that step is called, with the mode of the block and its
\* opening tag; the modes reported alternate and start with the start mode.
C33_ModeSwitchOncePerStep ==
    /\ Len(mode_switches) = Len(calls)
    /\ \A i \in 1..Len(mode_switches) :
           /\ mode_switches[i][1] = calls[i].mode
           /\ mode_switches[i][2] = (IF calls[i].mode = THINK THEN THINK_OPEN
                                                              ELSE grammar_open)
           /\ mode_switches[i][3] = i - 1
           /\ i <= Len(blocks) => blocks[i].kind = mode_switches[i][1]
           /\ i > 1 => mode_switches[i][1] # mode_switches[i - 1][1]
    /\ mode_switches # <<>> => mode_switches[1][1] = StartMode

C33_Witness ==
    /\ pc = "done"
    /\ Len(mode_switches) = 3
    /\ mode_switches[1][1] = THINK
    /\ mode_switches[2][1] = GRAMMAR
    /\ mode_switches[3][1] = THINK

(***************************************************************************)
(* Further claims about the streaming generators (under SpecStream).       *)
(***************************************************************************)
\* C34: a streaming generator consumed to exhaustion emits exactly one
\* terminal event (done or error), and that event is the last one: no token,
\* status or second terminal event follows it.
C34_OneTerminalEventLast ==
    /\ \A i \in 1..Len(events) : IsTerminal(events[i]) => i = Len(events)
    /\ stream_pc = "end" => (events # <<>> /\ IsTerminal(Last(events)))

C34_Witness ==
    /\ stream_pc = "end"
    /\ Len(events) = 3
    /\ events[1].type = "status"
    /\ events[2].type = "token"
    /\ events[3].type = "error"

\* The initial text is not a completable prefix of the grammar: feed_raw
\* rejects it, or it is accepted but is neither complete nor has a completion.
NotCompletable(text) ==
    \/ ~PrefixAccepted(text)
    \/ (~PrefixComplete(text) /\ ~PrefixHasCompletions(text))

\* The positions of generate_constrained_stream before the registration of
\* the generation and the loading of the model, and those after a return.
BeforeRegistration ==
    {"created", "validate", "y_invalid", "y_outer_error", "end", "closed"}

ValidationMessages == {"invalid_prefix", "not_completable", "feed_raised"}

\* C35: when the initial text of generate_constrained_stream is not a
\* completable prefix of the grammar, the stream consists of exactly one error
\* event, no generation is registered and no model is loaded; an empty
\* initial text is always accepted.
C35_InvalidInitialRejected ==
    /\ (stream = "constrained" /\ NotCompletable(stream_initial)) =>
           /\ stream_pc \in BeforeRegistration
           /\ active_generations = {}
           /\ Len(events) <= 1
           /\ \A i \in 1..Len(events) : events[i].type = "error"
           /\ stream_pc = "end" => Len(events) = 1
    /\ (stream = "constrained" /\ stream_initial = <<>>) =>
           /\ stream_pc # "y_invalid"
           /\ \A i \in 1..Len(events) :
                  events[i].type = "error" =>
                      events[i].message \notin ValidationMessages

C35_Witness ==
    /\ stream = "constrained"
    /\ stream_initial = <<"dead">>
    /\ stream_pc = "end"
    /\ events = <<ErrorEvent("not_completable")>>

(***************************************************************************)
(* The inference methods of TypedSampler compared (under SpecSampler).     *)
(***************************************************************************)
\* C36: for the same recognizer state, logits and pre_top_k (None, 0 and
\* values of the vocabulary size or more included), infer_greedy(k = 1)
\* returns the first element of infer_text(k = 1), returns null exactly when
\* infer_text returns the empty list, and both pick only indices that infer
\* leaves different from -inf.
C36_InferenceMethodsAgree ==
    LET masked_logits == infer(buffer, logits, pre_top_k)
        first == infer_text(buffer, logits, 1, pre_top_k)
    IN  /\ (ret.op = "infer_greedy" /\ greedy_k = 1) =>
               /\ ret.value = GreedyNone <=> first = <<>>
               /\ ret.value.kind = "token" =>
                      /\ first = <<vocab[ret.value.index]>>
                      /\ masked_logits[ret.value.index] # NegInf
        /\ ret.op = "infer_text" =>
               \A j \in 1..Len(ret.value) :
                   masked_logits[IndexOf(ret.value[j])] # NegInf

(***************************************************************************)
(* The two implementations of the constrained generation loop, as          *)
(* functions of their arguments: generate and until_complete of            *)
(* src/proposition_7/inference.py, and ConstrainedModel.generate and       *)
(* until_complete of src/p7/llm.py, which drive iter_constrained.  The     *)
(* logit function returns logit_seq[n] at its n-th call and is called at   *)
(* most max_tokens times; pick stands for the value of random.random() in  *)
(* the weighted choice of infer_greedy; signal is how feed_raw signals a   *)
(* rejection.                                                              *)
(***************************************************************************)
\* The logit vectors of a comparison: one token stands out.
CompareLogits ==
    {l \in LogitVectors : \E i \in 1..Len(l) :
                              l[i] = 1 /\ \A j \in (1..Len(l)) \ {i} : l[j] = 0}

\* infer_greedy with the random number fixed: the weighted choice falls on
\* the pick-th of the top k valid pairs.
infer_greedy_with(buf, l, k, ptk, pick) ==
    LET valid_pairs == infer_greedy_valid_pairs(buf, l, ptk)
        top_k == Take(valid_pairs, k)
    IN  IF valid_pairs = <<>> THEN GreedyNone
        ELSE IF k = 1 \/ Len(valid_pairs) = 1 THEN GreedyToken(valid_pairs[1])
        ELSE IF top_k = <<>> THEN GreedyRaise
        ELSE GreedyToken(top_k[Min(pick, Len(top_k))])

LoopReturned(summary, cbs) ==
    [kind |-> "returned", summary |-> summary, callbacks |-> cbs]

\* An exception left the loop: there is no summary.
LoopRaised(cbs) == [kind |-> "raised", summary |-> NoResult, callbacks |-> cbs]

\* "for step in range(max_tokens)" of inference.generate (soc false) and of
\* inference.until_complete (soc true), from iteration s on.
RECURSIVE inference_loop(_, _, _, _, _, _)
inference_loop(x, soc, buf, n, s, cbs) ==
    IF ~GenLoopContinues(s, x.max_tokens)
    THEN LoopReturned(Summary(buf, n, "max_tokens"), cbs)
    ELSE LET r == infer_greedy_with(buf, x.logit_seq[s + 1], x.greedy_k,
                                    x.pre_top_k, x.pick)
         IN  IF r.kind = "raised" THEN LoopRaised(cbs)
             ELSE IF r.kind = "none"
             THEN LoopReturned(Summary(buf, n, "no_valid"), cbs)
             ELSE LET next_token == vocab[r.index]
                  IN  IF feed_outcome(Accepts(buf, next_token), x.signal) = "raised"
                      THEN LoopReturned(Summary(buf, n, "type_error"), cbs)
                      ELSE LET fed == feed_raw(buf, next_token)
                               called == Append(cbs, <<next_token, s>>)
                           IN  IF StopsOnComplete(soc, fed)
                               THEN LoopReturned(Summary(fed, n + 1, "complete"),
                                                 called)
                               ELSE inference_loop(x, soc, fed, n + 1, s + 1, called)

\* inference.generate / inference.until_complete
inference_run(x, soc) ==
    LET fed == x.initial # <<>>
        accepted == Accepts(<<>>, x.initial)
        buf == IF fed THEN feed_raw(<<>>, x.initial) ELSE <<>>
    IN  IF fed /\ feed_outcome(accepted, x.signal) = "raised"
        THEN LoopReturned(GenerationResult(x.initial, FALSE, 0, "type_error"), <<>>)
        ELSE IF StopsOnComplete(soc, buf)
        THEN LoopReturned(GenerationResult(buf, TRUE, 0, "complete"), <<>>)
        ELSE inference_loop(x, soc, buf, 0, 0, <<>>)

\* The loop of iter_constrained from iteration s on: the tokens it yields
\* and the summary it returns.
RECURSIVE iter_constrained_loop(_, _, _, _, _, _)
iter_constrained_loop(x, soc, buf, n, s, ys) ==
    IF ~GenLoopContinues(s, x.max_tokens)
    THEN LoopReturned(Summary(buf, n, "max_tokens"), ys)
    ELSE LET r == infer_greedy_with(buf, x.logit_seq[s + 1], x.greedy_k,
                                    x.pre_top_k, x.pick)
         IN  IF r.kind = "raised" THEN LoopRaised(ys)
             ELSE IF r.kind = "none"
             THEN LoopReturned(Summary(buf, n, "no_valid"), ys)
             ELSE LET next_token == vocab[r.index]
                  IN  IF feed_outcome(Accepts(buf, next_token), x.signal) = "raised"
                      THEN LoopReturned(Summary(buf, n, "type_error"), ys)
                      ELSE LET fed == feed_raw(buf, next_token)
                               out == Append(ys, next_token)
                           IN  IF StopsOnComplete(soc, fed)
                               THEN LoopReturned(Summary(fed, n + 1, "complete"), out)
                               ELSE iter_constrained_loop(x, soc, fed, n + 1, s + 1,
                                                          out)

\* iter_constrained(initial, ..., stop_on_complete): callbacks holds the
\* tokens yielded.
iter_constrained(x, soc) ==
    LET fed == x.initial # <<>>
        accepted == Accepts(<<>>, x.initial)
        buf == IF fed THEN feed_raw(<<>>, x.initial) ELSE <<>>
    IN  IF fed /\ feed_outcome(accepted, x.signal) = "raised"
        THEN LoopReturned(GenerationResult(x.initial, FALSE, 0, "type_error"), <<>>)
        ELSE IF StopsOnComplete(soc, buf)
        THEN LoopReturned(GenerationResult(buf, TRUE, 0, "complete"), <<>>)
        ELSE iter_constrained_loop(x, soc, buf, 0, 0, <<>>)

wrapper_callbacks_CountAfter(ys) == [k \in 1..Len(ys) |-> <<ys[k], k>>]

\* "tokens_generated += 1; on_token(token, tokens_generated - 1)" for every
\* token the generator yields
wrapper_callbacks(ys) == [k \in 1..Len(ys) |-> <<ys[k], OnTokenIndex(k)>>]

\* ConstrainedModel.generate (soc false) / ConstrainedModel.until_complete
llm_run(x, soc) ==
    LET g == iter_constrained(x, soc)
    IN  [kind |-> g.kind, summary |-> g.summary,
         callbacks |-> wrapper_callbacks(g.callbacks)]

LoopsInit ==
    /\ gen_initial \in GenInitials
    /\ max_tokens \in 0..MaxTokens
    /\ stop_on_complete \in BOOLEAN
    /\ pre_top_k \in PreTopKs
    /\ greedy_k \in 0..MaxK
    /\ compared = None
    /\ gen_pc = "idle"
    /\ entry = "none"
    /\ step = 0
    /\ tokens_generated = 0
    /\ yielded = <<>>
    /\ result = NoResult
    /\ logit_calls = 0
    /\ raised = None
    /\ generated_token_ids = <<>>
    /\ pulls = 0
    /\ received = 0
    /\ callbacks = <<>>
    /\ full_text = <<>>
    /\ buffer = <<>>
    /\ logits = <<>>
    /\ ret = NoRet
    /\ grammars = <<>>
    /\ registry_calls = <<>>
    /\ mask_logits = <<>>
    /\ mask_text = <<>>
    /\ masked = None
    /\ CacheIdle
    /\ StreamIdle
    /\ EnvIdle

\* Both loops are called once with the arguments of the state, a logit
\* function and a callback that records its calls.
LoopsCompare ==
    /\ compared = None
    /\ \E logit_seq \in [1..max_tokens -> CompareLogits], pick \in 1..MaxK,
          signal \in RejectSignals :
           LET x == [initial |-> gen_initial, max_tokens |-> max_tokens,
                     greedy_k |-> greedy_k, pre_top_k |-> pre_top_k,
                     logit_seq |-> logit_seq, pick |-> pick, signal |-> signal]
           IN  compared' = Some([args |-> x,
                                 inference |-> inference_run(x, stop_on_complete),
                                 llm |-> llm_run(x, stop_on_complete)])
    /\ UNCHANGED <<grammars, registry_calls, mask_logits, mask_text, masked>>
    /\ UNCHANGED <<envVars, smpVars, genVars, cacheVars, streamVars>>

LoopsNext == LoopsCompare

SpecLoops == LoopsInit /\ [][LoopsNext]_vars

\* C37: the two implementations of the generation loop are equivalent: for the
\* same grammar, vocabulary, logit sequence, initial text, max_tokens,
\* greedy_k, pre_top_k and a callback that does not raise, inference.generate
\* and ConstrainedModel.generate return the same summary (text, is_complete,
\* tokens_generated, stopped_reason) and make the same on_token calls, and so
\* do inference.until_complete and ConstrainedModel.until_complete.
C37_LoopsEquivalent ==
    compared # None =>
        /\ compared[1].inference.kind = compared[1].llm.kind
        /\ compared[1].inference.summary = compared[1].llm.summary
        /\ compared[1].inference.callbacks = compared[1].llm.callbacks

C37_Witness ==
    /\ compared # None
    /\ stop_on_complete
    /\ gen_initial = <<>>
    /\ compared[1].llm.kind = "returned"
    /\ compared[1].llm.summary.stopped_reason = "complete"
    /\ compared[1].llm.summary.tokens_generated = 2
    /\ compared[1].inference.callbacks = << <<<<"a">>, 0>>, <<<<"b">>, 1>> >>

(***************************************************************************)
(* A further claim about iter_unconstrained (under SpecGen).               *)
(***************************************************************************)
\* The text of token id i equals a stop token, or ends with a stop token
\* longer than one character.
StopSample(i) ==
    LET token_str == decode(<<i>>)
    IN  \/ token_str \in stop_tokens
        \/ \E stop \in stop_tokens :
               /\ StrLen(stop) > 1
               /\ Len(stop) <= Len(token_str)
               /\ SubSeq(token_str, Len(token_str) - Len(stop) + 1, Len(token_str)) = stop

\* The last draw of the loop fell on a stop token.
EndedOnStopToken == ret.op = "multinomial" /\ StopSample(ret.top_idx)

C39_ModelEntryImpliesTokenizerEntry ==
    /\ \A name \in ModelNames :
           models[ModelKey(name)] # None => models[TokenizerKey(name)] # None
    /\ \A t \in Threads : cache_pc[t] # "key_error"

C39_Witness ==
    \E t, u \in Threads :
        /\ cache_pc[t] = "returned"
        /\ cache_local[t] = None
        /\ cache_ret[t] # None
        /\ cache_pc[u] = "store_model"
        /\ cache_name[u] # cache_name[t]
        /\ models[TokenizerKey(cache_name[u])] # None
        /\ models[ModelKey(cache_name[u])] = None

====
